---- MODULE Spec2Model ----
(***************************************************************************)
(* mcp-bento: connector lifecycle (ClientConnector, StdioConnector),       *)
(* connector registry (ConnectorRegistry.disposeAll) and the shutdown      *)
(* procedure of the serve command (runServe).                              *)
(*                                                                         *)
(* A promise-returning method is modelled as a task: one action per        *)
(* synchronous stretch of the method, from one await to the next.  Every   *)
(* await is a suspension point, also when the awaited promise is already   *)
(* settled, so other tasks may run between two stretches.                  *)
(***************************************************************************)
EXTENDS Naturals, Integers, Sequences, FiniteSets, TLC

\* ---- bounds of the model ------------------------------------------------
NConns == 2            \* connectors in the registry
NTasks == 2            \* method calls of one connector in progress at a time
MaxCalls == 4          \* method calls on one connector per behaviour
MaxAttempts == 3       \* initialize() invocations per behaviour
NumListVersions == 2   \* distinct listings the upstream may answer with
MaxSignals == 3        \* signals delivered to the serving process
MaxEntries == 2        \* entries of the profile a resolution starts from
MaxCallbacks == 2      \* register() calls on one CleanupManager
MaxListeners == 2      \* listeners one CleanupManager installs
MaxLines == 3          \* stderr lines one stdio server writes
MaxReturned == 2       \* lists handed to the callers of listTools / listPrompts
MaxListLength == 3
MaxRequests == 2     \* elements of a list a caller adds to

ConnIds == 1..NConns
Tasks == 1..NTasks
\* the connector the callers of Spec work on: the first of the registry
Focus == CHOOSE c \in ConnIds : \A d \in ConnIds : c <= d

ListKinds == {"tools", "prompts"}
ReadyOps == {"ensureReady", "listTools", "listPrompts", "callTool", "getPrompt"}
ListOps == {"listTools", "listPrompts"}
CallOps == {"callTool", "getPrompt"}
Signals == {"SIGINT", "SIGTERM"}

\* what client.close() may reject with: Error objects with these messages
CloseMessages == {"boom", "bang"}

VARIABLES
    conn,          \* conn[c]: the fields of connector c
    attempts,      \* attempts[a]: the a-th initialize() call; a is also the
                   \* identity of the Client it created and of its error
    task,          \* task[t]: the method call t and where it is suspended;
                   \* pc: "idle" | "er_wait" (await this.initPromise, the
                   \* promise pending when the await began) | "er_late"
                   \* (the same, the promise settled already) |
                   \* "after_er" (ensureReady() returned) | "list_wait" |
                   \* "call_wait" (upstream request sent) | "flush_wait" |
                   \* "close_wait" (client.close() called) | "done"
    disposeCalls,  \* disposeCalls[c]: dispose() invocations on connector c
    calls,         \* method calls made so far by the callers of Spec
    shuttingDown,  \* runServe: let shuttingDown
    sigListeners,  \* signals that still have their process.once listener
    httpServer,    \* "listening" | "closing" | "closed"
    forceExitTimer,\* "unset" | "armed" | "cleared"
    disposeAllRun, \* [calls, state, message] of registry.disposeAll()
    proc,          \* "running" | "exit0" | "exit1" | "killed" | "drained"
    signalsSent,   \* number of signals delivered so far
    config,        \* the Config the resolver works on: profiles, mcpServers
    upstream,      \* upstream[s]: what the server behind connector s lists
    resolved,      \* the last Profile.create(): its outcome and its maps
    dispatched,    \* the last Profile.callTool / getPrompt and its outcome
    cleanup,       \* one CleanupManager, the listener lists of the emitters
                   \* it watches, and the microtasks its run() has queued
    callbackRuns,  \* callbackRuns[i]: how often callback i was invoked, how
                   \* its last invocation ended, and whether it was
                   \* registered after run() (late)
    lastEmit,      \* the last event emitted, and the listeners it called
    req,           \* one HTTP request and the handler of createApp serving it
    stderr,        \* a StdioConnector's stderrWriteChain and the log file
    lists          \* the arrays that a Profile, a connector and their
                   \* callers hold

connVars == <<conn, attempts, task, disposeCalls, calls>>
hostVars == <<shuttingDown, sigListeners, httpServer, forceExitTimer,
              disposeAllRun, proc, signalsSent>>
resVars == <<config, upstream, resolved, dispatched>>
cleanVars == <<cleanup, callbackRuns, lastEmit>>
vars == <<conn, attempts, task, disposeCalls, calls, shuttingDown,
          sigListeners, httpServer, forceExitTimer, disposeAllRun, proc,
          signalsSent, config, upstream, resolved, dispatched,
          cleanup, callbackRuns, lastEmit, req, stderr, lists>>
auxVars == <<stderr, lists>>

\* ---- ClientConnector: fields ---------------------------------------------
\* client, initPromise: 0 is null, a > 0 the client / promise of attempt a.
\* toolCache, promptCache: 0 is null, v > 0 the listing version v.
NewConnector(kind) ==
    [kind |-> kind, client |-> 0, initPromise |-> 0, disposed |-> FALSE,
     toolCache |-> 0, promptCache |-> 0, stderrInterface |-> FALSE]

IdleTask ==
    [op |-> "none", on |-> Focus, pc |-> "idle", await |-> 0,
     result |-> "none", val |-> 0, msg |-> "", late |-> FALSE]

\* The call of task tk has settled: what is left of it is its outcome.
Done(tk, result, val) ==
    [tk EXCEPT !.op = "none", !.pc = "done", !.await = 0, !.result = result,
               !.val = val]

KindOf(op) == IF op = "listTools" THEN "tools" ELSE "prompts"

CacheOf(cr, k) == IF k = "tools" THEN cr.toolCache ELSE cr.promptCache

SetCache(cr, k, v) ==
    IF k = "tools" THEN [cr EXCEPT !.toolCache = v]
    ELSE [cr EXCEPT !.promptCache = v]

\* Task t is free for a new method call: it has none in progress.  Tasks
\* are interchangeable, so they are first used in the order of their names.
MayStart(t) ==
    /\ proc = "running"
    /\ task[t].pc \in {"idle", "done"}
    /\ t > 1 => task[t - 1].pc # "idle"
    /\ calls < MaxCalls
    /\ calls' = calls + 1

\* ---- ClientConnector.initialize / createTransport ------------------------
\* createClient(), createTransport() and the call of client.connect(): the
\* new attempt is pending.  A stdio transport with a stderr stream gets a
\* readline interface (pipeStderrToLog).
createTransport(cr, hasStderr) ==
    IF cr.kind = "stdio" /\ hasStderr
    THEN [cr EXCEPT !.stderrInterface = TRUE]
    ELSE cr

initialize(c, hasStderr) ==
    /\ Len(attempts) < MaxAttempts
    /\ attempts' = Append(attempts, [conn |-> c, state |-> "pending", closes |-> 0])
    /\ conn' = [conn EXCEPT ![c] =
                  [createTransport(@, hasStderr) EXCEPT !.initPromise = Len(attempts) + 1]]

\* client.connect() settles: on success initialize() latches the client
\* (it does not look at disposed), on failure the promise rejects.
InitializeSettle(a, ok) ==
    /\ a \in DOMAIN attempts
    /\ attempts[a].state = "pending"
    /\ attempts' = [attempts EXCEPT ![a].state = IF ok THEN "ok" ELSE "failed"]
    /\ conn' = IF ok THEN [conn EXCEPT ![attempts[a].conn].client = a] ELSE conn
    /\ UNCHANGED <<task, disposeCalls, calls, hostVars, resVars, cleanVars, req, auxVars>>

\* ---- ClientConnector.ensureReady -----------------------------------------
\* The synchronous part of ensureReady(), entered by method op of task t.
\* late records that dispose() had been called on the connector before.
AfterReady(tk, op) ==
    IF op = "ensureReady" THEN Done(tk, "ok", 0)
    ELSE [tk EXCEPT !.pc = "after_er", !.await = 0]

ensureReadyEnter(c, t, op, hasStderr) ==
    LET cr == conn[c]
        tk == [IdleTask EXCEPT !.op = op, !.late = disposeCalls[c] > 0]
    IN  IF cr.disposed
        THEN /\ task' = [task EXCEPT ![t] = Done(tk, "disposed", 0)]
             /\ UNCHANGED <<conn, attempts>>
        ELSE IF cr.client # 0
        THEN /\ task' = [task EXCEPT ![t] = AfterReady(tk, op)]
             /\ UNCHANGED <<conn, attempts>>
        ELSE IF cr.initPromise = 0
        THEN /\ initialize(c, hasStderr)
             /\ task' = [task EXCEPT ![t] =
                           [tk EXCEPT !.pc = "er_wait", !.await = Len(attempts) + 1]]
        ELSE /\ task' = [task EXCEPT ![t] =
                           [tk EXCEPT !.pc = IF attempts[cr.initPromise].state = "pending"
                                             THEN "er_wait" ELSE "er_late",
                                      !.await = cr.initPromise]]
             /\ UNCHANGED <<conn, attempts>>

\* A method is called on the connector: each one begins with ensureReady().
Called(t, op) ==
    /\ \E hasStderr \in BOOLEAN : ensureReadyEnter(Focus, t, op, hasStderr)
    /\ UNCHANGED <<disposeCalls, hostVars, resVars, cleanVars, req, auxVars>>

EnsureReady(t) ==
    /\ MayStart(t)
    /\ Called(t, "ensureReady")

ListTools(t) ==
    /\ MayStart(t)
    /\ Called(t, "listTools")

ListPrompts(t) ==
    /\ MayStart(t)
    /\ Called(t, "listPrompts")

CallTool(t) ==
    /\ MayStart(t)
    /\ Called(t, "callTool")

GetPrompt(t) ==
    /\ MayStart(t)
    /\ Called(t, "getPrompt")

\* await this.initPromise resumes after the promise has resolved.
EnsureReadyResolved(t) ==
    /\ task[t].pc \in {"er_wait", "er_late"}
    /\ attempts[task[t].await].state = "ok"
    /\ task' = [task EXCEPT ![t] = AfterReady(@, task[t].op)]
    /\ UNCHANGED <<conn, attempts, disposeCalls, calls, hostVars, resVars, cleanVars, req, auxVars>>

\* The catch block: clear the slot and rethrow the error of the attempt.
ClearSlot_Kept(cr) == cr

ClearSlot(cr) == [cr EXCEPT !.initPromise = 0]

\* The promise of attempt a has rejected.  The callers that were awaiting it
\* when it rejected resume one after the other, with nothing run in between
\* (their reactions were queued together): each runs the catch block.
Waiters(a) == {t \in Tasks : task[t].pc = "er_wait" /\ task[t].await = a}

EnsureReadyRejected(a) ==
    /\ a \in DOMAIN attempts
    /\ attempts[a].state = "failed"
    /\ Waiters(a) # {}
    /\ conn' = [conn EXCEPT ![attempts[a].conn] = ClearSlot(@)]
    /\ task' = [t \in Tasks |->
                  IF t \in Waiters(a) THEN Done(task[t], "initErr", a)
                  ELSE task[t]]
    /\ UNCHANGED <<attempts, disposeCalls, calls, hostVars, resVars, cleanVars, req, auxVars>>

\* A caller that began to await the promise after it had rejected resumes
\* on its own, after the callers that awaited it before.
EnsureReadyRejectedLate(t) ==
    /\ task[t].pc = "er_late"
    /\ attempts[task[t].await].state = "failed"
    /\ Waiters(task[t].await) = {}
    /\ conn' = [conn EXCEPT ![task[t].on] = ClearSlot(@)]
    /\ task' = [task EXCEPT ![t] = Done(@, "initErr", task[t].await)]
    /\ UNCHANGED <<attempts, disposeCalls, calls, hostVars, resVars, cleanVars, req, auxVars>>

\* ---- ClientConnector.listTools / listPrompts -----------------------------
\* After await this.ensureReady(): the client check, then the cache; with
\* an empty cache the list request is sent upstream ("list_wait").
ListAfterReady(t) ==
    LET cr == conn[task[t].on]
        k == KindOf(task[t].op)
    IN  /\ task[t].pc = "after_er"
        /\ task[t].op \in ListOps
        /\ IF cr.client = 0
           THEN task' = [task EXCEPT ![t] = Done(@, "notInit", 0)]
           ELSE IF CacheOf(cr, k) = 0
           THEN task' = [task EXCEPT ![t].pc = "list_wait"]
           ELSE task' = [task EXCEPT ![t] = Done(@, "ok", CacheOf(cr, k))]
        /\ UNCHANGED <<conn, attempts, disposeCalls, calls, hostVars, resVars, cleanVars, req, auxVars>>

\* The upstream answers the list request with listing v (v = 0: an error).
StoreListing(cr, k, v) == SetCache(cr, k, v)

ListResponse(t, v) ==
    LET k == KindOf(task[t].op)
    IN  /\ task[t].pc = "list_wait"
        /\ IF v = 0
           THEN /\ task' = [task EXCEPT ![t] = Done(@, "upstreamErr", 0)]
                /\ UNCHANGED conn
           ELSE /\ conn' = [conn EXCEPT ![task[t].on] = StoreListing(@, k, v)]
                /\ task' = [task EXCEPT ![t] = Done(@, "ok", v)]
        /\ UNCHANGED <<attempts, disposeCalls, calls, hostVars, resVars, cleanVars, req, auxVars>>

\* ---- ClientConnector.callTool / getPrompt --------------------------------
CallAfterReady(t) ==
    /\ task[t].pc = "after_er"
    /\ task[t].op \in CallOps
    /\ IF conn[task[t].on].client = 0
       THEN task' = [task EXCEPT ![t] = Done(@, "notInit", 0)]
       ELSE task' = [task EXCEPT ![t].pc = "call_wait"]
    /\ UNCHANGED <<conn, attempts, disposeCalls, calls, hostVars, resVars, cleanVars, req, auxVars>>

CallResponse(t, ok) ==
    /\ task[t].pc = "call_wait"
    /\ task' = [task EXCEPT ![t] =
                  Done(@, IF ok THEN "ok" ELSE "upstreamErr", 0)]
    /\ UNCHANGED <<conn, attempts, disposeCalls, calls, hostVars, resVars, cleanVars, req, auxVars>>

\* ---- ClientConnector.dispose / StdioConnector.dispose ---------------------
\* client.close() is called on client a (a = 0: no client, nothing called).
CloseCalled(as, a) ==
    IF a = 0 THEN as ELSE [as EXCEPT ![a].closes = @ + 1]

\* ClientConnector.dispose() up to its await: the flag, the caches, the slot.
BaseDisposeConn(cr) ==
    [cr EXCEPT !.disposed = TRUE, !.toolCache = 0, !.promptCache = 0,
               !.initPromise = 0]

BaseDisposeTask(cr, tk) ==
    IF cr.client # 0
    THEN [tk EXCEPT !.pc = "close_wait"]
    ELSE Done(tk, "ok", 0)

\* dispose() of connector cr up to its first await.  The stdio connector
\* closes its stderr interface and awaits the stderr write chain before it
\* calls super.dispose(); the http connector runs the base method at once.
DisposeConn(cr) ==
    IF cr.kind = "stdio" THEN [cr EXCEPT !.stderrInterface = FALSE]
    ELSE BaseDisposeConn(cr)

DisposeTask(cr, tk) ==
    IF cr.kind = "stdio"
    THEN [tk EXCEPT !.pc = "flush_wait", !.await = Len(stderr.chain)]
    ELSE BaseDisposeTask(cr, tk)

ClosedByDispose(cr) == IF cr.kind = "stdio" THEN 0 ELSE cr.client

NewDispose(c) == [IdleTask EXCEPT !.op = "dispose", !.on = c]

Dispose(t) ==
    /\ MayStart(t)
    /\ conn' = [conn EXCEPT ![Focus] = DisposeConn(@)]
    /\ task' = [task EXCEPT ![t] = DisposeTask(conn[Focus], NewDispose(Focus))]
    /\ attempts' = CloseCalled(attempts, ClosedByDispose(conn[Focus]))
    /\ disposeCalls' = [disposeCalls EXCEPT ![Focus] = @ + 1]
    /\ UNCHANGED <<hostVars, resVars, cleanVars, req, auxVars>>

HasSettled(state) == state \in {"fulfilled", "rejected", "skipped"}

\* the promise stderrWriteChain held when n lines had been enqueued
ChainState(n) == IF n = 0 THEN "fulfilled" ELSE stderr.chain[n].state

\* a dispose() that lets the rejection of the chain through
FlushFailed_Thrown(tk) == Done(tk, "flushErr", 0)

\* catch of await this.stderrWriteChain: a warning, and dispose() goes on
FlushFailed(tk) == tk

\* await this.stderrWriteChain resumes (a rejection is logged and
\* swallowed): super.dispose() runs up to its await.
DisposeFlushed(t) ==
    LET flushed == ChainState(task[t].await) = "fulfilled"
        tk == IF flushed THEN task[t] ELSE FlushFailed(task[t])
        goesOn == tk.pc = "flush_wait"
    IN  /\ proc = "running"
        /\ task[t].pc = "flush_wait"
        /\ HasSettled(ChainState(task[t].await))
        /\ conn' = IF goesOn
                   THEN [conn EXCEPT ![task[t].on] = BaseDisposeConn(@)]
                   ELSE conn
        /\ task' = [task EXCEPT ![t] =
                      IF goesOn THEN BaseDisposeTask(conn[task[t].on], tk)
                      ELSE tk]
        /\ attempts' = IF goesOn
                       THEN CloseCalled(attempts, conn[task[t].on].client)
                       ELSE attempts
        /\ stderr' = IF flushed THEN stderr
                     ELSE [stderr EXCEPT !.warnings =
                              Append(@, "Failed to flush stderr log queue")]
        /\ UNCHANGED <<disposeCalls, calls, hostVars, resVars, cleanVars, req, lists>>

\* await this.client.close() settles (msg = "": resolved, else rejected
\* with Error(msg)); finally this.client = null.
DisposeClosed(t, msg) ==
    /\ proc = "running"
    /\ task[t].pc = "close_wait"
    /\ conn' = [conn EXCEPT ![task[t].on].client = 0]
    /\ task' = [task EXCEPT ![t] =
                  IF msg = "" THEN Done(@, "ok", 0)
                  ELSE [Done(@, "closeErr", 0) EXCEPT !.msg = msg]]
    /\ UNCHANGED <<attempts, disposeCalls, calls, hostVars, resVars, cleanVars, req, auxVars>>

\* ---- ConnectorRegistry.disposeAll ----------------------------------------
\* Error.prototype.toString: String(new Error(m)).
StringOfError(m) == IF m = "" THEN "Error" ELSE "Error: " \o m

\* Array.prototype.join
RECURSIVE join(_, _)
join(parts, sep) ==
    IF Len(parts) = 0 THEN ""
    ELSE IF Len(parts) = 1 THEN parts[1]
    ELSE parts[1] \o sep \o join(Tail(parts), sep)

\* results.filter(rejected).map(failure => String(failure.reason)), in the
\* order of the registry's map.
RECURSIVE FailureStrings(_)
FailureStrings(c) ==
    IF c > NConns THEN <<>>
    ELSE IF task[c].result = "closeErr"
         THEN <<StringOfError(task[c].msg)>> \o FailureStrings(c + 1)
         ELSE FailureStrings(c + 1)

\* Promise.all instead: settles with the first rejection.
AllSettled_FirstRejection ==
    \/ \A c \in ConnIds : task[c].pc = "done"
    \/ \E c \in ConnIds : task[c].result = "closeErr"

\* Promise.allSettled over the dispose() calls: every one has settled.
AllSettled == \A c \in ConnIds : task[c].pc = "done"

\* The synchronous part of disposeAll(): dispose() is called on every
\* connector of the map, each call running up to its first await.  The call
\* on connector c is task c.
disposeAllStart ==
    /\ conn' = [c \in ConnIds |-> DisposeConn(conn[c])]
    /\ task' = [t \in Tasks |->
                  IF t \in ConnIds THEN DisposeTask(conn[t], NewDispose(t))
                  ELSE task[t]]
    /\ attempts' = [a \in DOMAIN attempts |->
                      IF \E c \in ConnIds : ClosedByDispose(conn[c]) = a
                      THEN [attempts[a] EXCEPT !.closes = @ + 1]
                      ELSE attempts[a]]
    /\ disposeCalls' = [c \in ConnIds |-> disposeCalls[c] + 1]
    /\ disposeAllRun' = [disposeAllRun EXCEPT !.calls = @ + 1, !.state = "awaiting"]

disposeAllResult_FirstOnly ==
    LET messages == FailureStrings(1)
    IN  IF Len(messages) > 0
        THEN [disposeAllRun EXCEPT !.state = "rejected", !.message = messages[1]]
        ELSE [disposeAllRun EXCEPT !.state = "fulfilled"]

disposeAllResult ==
    LET messages == FailureStrings(1)
    IN  IF Len(messages) > 0
        THEN [disposeAllRun EXCEPT !.state = "rejected",
                                   !.message = join(messages, "; ")]
        ELSE [disposeAllRun EXCEPT !.state = "fulfilled"]

\* ---- runServe: signals and shutdown --------------------------------------
\* shutdown(signal) up to its first await.
shutdown ==
    IF shuttingDown
    THEN UNCHANGED <<shuttingDown, httpServer>>
    ELSE /\ shuttingDown' = TRUE
         /\ httpServer' = "closing"

\* A signal reaches the process.  process.once removes the listener before
\* it runs it; a signal that has no listener left takes its default action
\* and terminates the process.
Signal(sig) ==
    /\ proc = "running"
    /\ signalsSent < MaxSignals
    /\ signalsSent' = signalsSent + 1
    /\ IF sig \in sigListeners
       THEN /\ sigListeners' = sigListeners \ {sig}
            /\ shutdown
            /\ UNCHANGED proc
       ELSE /\ proc' = "killed"
            /\ UNCHANGED <<sigListeners, shuttingDown, httpServer>>
    /\ UNCHANGED <<connVars, resVars, cleanVars, req, forceExitTimer, disposeAllRun, auxVars>>

\* server.close() called but not awaited: disposal starts while the server
\* is still closing.
HttpCloseDone_NotAwaited(closeError) ==
    /\ proc = "running"
    /\ httpServer = "closing"
    /\ forceExitTimer = "unset"
    /\ forceExitTimer' = "armed"
    /\ disposeAllStart
    /\ UNCHANGED <<calls, resVars, cleanVars, req, shuttingDown, sigListeners, httpServer, proc, signalsSent, auxVars>>

\* The callback of server.close() runs (with or without closeError): the
\* fail-safe timer is armed and registry.disposeAll() is called.
HttpCloseDone(closeError) ==
    /\ proc = "running"
    /\ httpServer = "closing"
    /\ httpServer' = "closed"
    /\ forceExitTimer' = "armed"
    /\ disposeAllStart
    /\ UNCHANGED <<calls, resVars, cleanVars, req, shuttingDown, sigListeners, proc, signalsSent, auxVars>>

\* disposeAll() settles; shutdown catches its error, clears the timer and
\* calls process.exit(0).
ShutdownComplete ==
    /\ proc = "running"
    /\ disposeAllRun.state = "awaiting"
    /\ AllSettled
    /\ disposeAllRun' = disposeAllResult
    /\ forceExitTimer' = "cleared"
    /\ proc' = "exit0"
    /\ UNCHANGED <<connVars, resVars, cleanVars, req, shuttingDown, sigListeners, httpServer, signalsSent, auxVars>>

\* The fail-safe timer fires: process.exit(1).
ForceExit ==
    /\ proc = "running"
    /\ forceExitTimer = "armed"
    /\ proc' = "exit1"
    /\ UNCHANGED <<connVars, resVars, cleanVars, req, shuttingDown, sigListeners, httpServer,
                   forceExitTimer, disposeAllRun, signalsSent, auxVars>>

\* The timer is unref()ed: when nothing else keeps the event loop alive the
\* process ends before the timer fires.
LoopDrained ==
    /\ proc = "running"
    /\ forceExitTimer = "armed"
    /\ ~AllSettled
    /\ proc' = "drained"
    /\ UNCHANGED <<connVars, resVars, cleanVars, req, shuttingDown, sigListeners, httpServer,
                   forceExitTimer, disposeAllRun, signalsSent, auxVars>>

\* ---- JavaScript values used by the configuration -------------------------
\* selection.prefix is a string, false or undefined; selection.tools and
\* selection.prompts are an array of strings or undefined.
Undefined == [t |-> "undefined"]

False == [t |-> "false"]

Str(s) == [t |-> "string", v |-> s]

List(names) == [t |-> "array", v |-> names]

Range(s) == {s[i] : i \in DOMAIN s}

\* An object is the sequence of its own properties [key, value] in the
\* order in which they were defined.
HasOwn(obj, k) == \E i \in DOMAIN obj : obj[i].key = k

OwnValue(obj, k) == obj[CHOOSE i \in DOMAIN obj : obj[i].key = k].value

\* Properties every plain object inherits from Object.prototype.
ObjectPrototypeKeys == {"constructor", "toString", "__proto__"}

\* obj[k] where the own values of obj are objects: an own property, else
\* an inherited one (a function or Object.prototype: an object that has no
\* enumerable own property), else undefined.
PropertyGet(obj, k) ==
    IF HasOwn(obj, k) THEN [t |-> "object", v |-> OwnValue(obj, k)]
    ELSE IF k \in ObjectPrototypeKeys THEN [t |-> "object", v |-> <<>>]
    ELSE Undefined

\* The keys that are canonical array indices, in ascending order (the
\* one-digit ones: the names of the model have no others).
ArrayIndexKeys == <<"0", "1", "2", "3", "4", "5", "6", "7", "8", "9">>

IsArrayIndex(k) == k \in Range(ArrayIndexKeys)

\* Object.entries(obj): the array-index keys in ascending numeric order
\* first, then the other string keys in the order of their definition.
ObjectEntries(obj) ==
    LET NotIndex(e) == ~IsArrayIndex(e.key)
        IsOwn(k) == HasOwn(obj, k)
        indices == SelectSeq(ArrayIndexKeys, IsOwn)
    IN  [i \in DOMAIN indices |->
            [key |-> indices[i], value |-> OwnValue(obj, indices[i])]]
        \o SelectSeq(obj, NotIndex)

\* ---- ConnectorRegistry.get -------------------------------------------------
\* The registry holds one connector per key of config.mcpServers, in a Map.
get(id) ==
    IF HasOwn(config.mcpServers, id)
    THEN [ok |-> TRUE, connector |-> id]
    ELSE [ok |-> FALSE, code |-> "InvalidRequest",
          message |-> "Unknown server id " \o id]

\* ---- profile resolution: helpers -------------------------------------------
toAllowlist(values) ==
    IF values.t = "undefined" THEN Undefined
    ELSE [t |-> "set", v |-> Range(values.v)]

\* value || fallback
resolvePrefixValue_Falsy(value, fallback) ==
    IF value.t = "string" /\ value.v # "" THEN value.v ELSE fallback

resolvePrefixValue(value, fallback) ==
    IF value.t = "false" THEN ""
    ELSE IF value.t = "undefined" THEN fallback
    ELSE value.v

shouldInclude_Always(allowlist, name) == TRUE

shouldInclude(allowlist, name) ==
    allowlist.t = "undefined" \/ name \in allowlist.v

\* A Map is the sequence of its entries [key, value] in insertion order.
MapHas(m, k) == \E i \in DOMAIN m : m[i].key = k

MapGet(m, k) == m[CHOOSE i \in DOMAIN m : m[i].key = k].value

\* createEntry of handleServerEntry and of mergeNestedProfile: the item's
\* connector and original name, its descriptor with the name replaced.
\* via is not in the code: it records, for the properties, the profile entry
\* the item came by.
createEntry_KeepsName(item, exportedName) ==
    [connector |-> item.connector,
     descriptor |-> item.descriptor,
     originalName |-> item.name,
     via |-> item.via]

createEntry(item, exportedName) ==
    [connector |-> item.connector,
     descriptor |-> [item.descriptor EXCEPT !.name = exportedName],
     originalName |-> item.originalName,
     via |-> item.via]

\* mergeEntries: items are the iterated items with name = getName(item).
RECURSIVE mergeEntries(_, _, _, _)
mergeEntries(items, target, allowlist, prefix) ==
    IF items = <<>> THEN target
    ELSE LET name == Head(items).name
             exportedName == prefix \o name
         IN  IF ~shouldInclude(allowlist, name)
             THEN mergeEntries(Tail(items), target, allowlist, prefix)
             ELSE IF MapHas(target, exportedName)
             THEN mergeEntries(Tail(items), target, allowlist, prefix)
             ELSE mergeEntries(Tail(items),
                     Append(target,
                            [key |-> exportedName,
                             value |-> createEntry(Head(items), exportedName)]),
                     allowlist, prefix)

\* ---- profile resolution: handleServerEntry, mergeNestedProfile -----------
\* The outcome of a resolution step: a ResolutionResult (ok) or the McpError
\* thrown (nothing of the maps built so far is returned); ctx is the state
\* of the resolver that outlives the step: its cache, the warnings logged,
\* and what the awaited connector calls answer.
Success(tools, prompts, ctx) ==
    [ok |-> TRUE, code |-> "", message |-> "", tools |-> tools,
     prompts |-> prompts, ctx |-> ctx]

Failure(code, message, ctx) ==
    [ok |-> FALSE, code |-> code, message |-> message, tools |-> <<>>,
     prompts |-> <<>>, ctx |-> ctx]

Warn(ctx, msg, serverId, profileName) ==
    [ctx EXCEPT !.warnings =
        Append(@, [msg |-> msg, serverId |-> serverId, profile |-> profileName])]

\* The items handleServerEntry passes to mergeEntries: the listed
\* descriptors; via is the profile entry they are merged for.
ServerItems(listing, connector, via) ==
    [i \in DOMAIN listing |->
        [name |-> listing[i].name, connector |-> connector,
         descriptor |-> listing[i], originalName |-> listing[i].name,
         via |-> via]]

\* The nested entries under their upstream names.
NestedItems_OriginalNames(m, via) ==
    [i \in DOMAIN m |->
        [name |-> m[i].value.originalName, connector |-> m[i].value.connector,
         descriptor |-> m[i].value.descriptor,
         originalName |-> m[i].value.originalName, via |-> via]]

\* The items mergeNestedProfile passes: the entries of a nested map.
NestedItems(m, via) ==
    [i \in DOMAIN m |->
        [name |-> m[i].key, connector |-> m[i].value.connector,
         descriptor |-> m[i].value.descriptor,
         originalName |-> m[i].value.originalName, via |-> via]]

\* connector.listTools().catch(...) / listPrompts().catch(...): the listing,
\* or [] for a failure (a warning unless it is method-not-found).
Listed(answer, listing) == IF answer = "ok" THEN listing ELSE <<>>

\* a warning for every failure, method-not-found included
WarnListing_Always(ctx, answer, msg, serverId, profileName) ==
    IF answer # "ok" THEN Warn(ctx, msg, serverId, profileName) ELSE ctx

WarnListing(ctx, answer, msg, serverId, profileName) ==
    IF answer = "error" THEN Warn(ctx, msg, serverId, profileName) ELSE ctx

\* a failure of ensureReady() that ends the resolution
InitFailed_Throws(profileName, serverId, tools, prompts, ctx) ==
    Failure("InternalError", "Failed to initialize connector", ctx)

\* catch of connector.ensureReady(): a warning, and the entry is left out
InitFailed(profileName, serverId, tools, prompts, ctx) ==
    Success(tools, prompts,
        Warn(ctx, "Failed to initialize connector", serverId, profileName))

\* called lists the servers on whose connector ensureReady() was called.
handleServerEntry(profileName, serverId, selection, tools, prompts, ctx) ==
    LET got == get(serverId)
        answers == ctx.answers[serverId]
        ctx0 == [ctx EXCEPT !.called = Append(@, serverId)]
    IN  IF ~got.ok THEN Failure(got.code, got.message, ctx)
        ELSE IF answers.ensureReady # "ok"
        THEN InitFailed(profileName, serverId, tools, prompts, ctx0)
        ELSE LET toolAllowlist == toAllowlist(selection.tools)
                 promptAllowlist == toAllowlist(selection.prompts)
                 prefix == resolvePrefixValue(selection.prefix, serverId \o "__")
                 serverTools == Listed(answers.listTools, upstream[serverId].tools)
                 ctx1 == WarnListing(ctx0, answers.listTools,
                             "Failed to list tools", serverId, profileName)
                 serverPrompts == Listed(answers.listPrompts, upstream[serverId].prompts)
                 ctx2 == WarnListing(ctx1, answers.listPrompts,
                             "Failed to list prompts", serverId, profileName)
             IN  Success(
                    mergeEntries(ServerItems(serverTools, got.connector, serverId),
                                 tools, toolAllowlist, prefix),
                    mergeEntries(ServerItems(serverPrompts, got.connector, serverId),
                                 prompts, promptAllowlist, prefix),
                    ctx2)

mergeNestedProfile(entryName, selection, nested, tools, prompts, ctx) ==
    LET toolAllowlist == toAllowlist(selection.tools)
        promptAllowlist == toAllowlist(selection.prompts)
        prefix == resolvePrefixValue(selection.prefix, "")
    IN  Success(
           mergeEntries(NestedItems(nested.tools, entryName), tools,
                        toolAllowlist, prefix),
           mergeEntries(NestedItems(nested.prompts, entryName), prompts,
                        promptAllowlist, prefix),
           ctx)

\* ---- ProfileResolver.resolveRecursive --------------------------------------
assertProfile(profile, profileName, ctx) ==
    IF profile.t = "undefined"
    THEN Failure("InvalidRequest", "Unknown profile: " \o profileName, ctx)
    ELSE Success(<<>>, <<>>, ctx)

\* a cache that keeps empty maps
CacheSet_Empty(ctx, profileName, result) ==
    [ctx EXCEPT !.cache =
        Append(@, [key |-> profileName,
                   value |-> [tools |-> <<>>, prompts |-> <<>>]])]

\* this.cache.set(profileName, result)
CacheSet(ctx, profileName, result) ==
    [ctx EXCEPT !.cache =
        Append(@, [key |-> profileName,
                   value |-> [tools |-> result.tools, prompts |-> result.prompts]])]

\* a resolver that never finds a result in its cache
Cached_Never(ctx, profileName) == FALSE

\* const cached = this.cache.get(profileName); if (cached) ...
Cached(ctx, profileName) == MapHas(ctx.cache, profileName)

\* stack.push(profileName): entered lists the profiles whose body this
\* resolver has begun to resolve, in the order of the pushes.
Entered(ctx, profileName) == [ctx EXCEPT !.entered = Append(@, profileName)]

\* the stack alone, without the name found on it
CyclePath_StackOnly(stack, profileName) == stack

\* [...stack, profileName]
CyclePath(stack, profileName) == Append(stack, profileName)

RECURSIVE resolveRecursive(_, _, _)
RECURSIVE resolveEntries(_, _, _, _, _, _)
\* The loop over Object.entries(profileConfig), from the entry at the head
\* of entries on; stack holds profileName as its last element.
resolveEntries(profileName, entries, stack, tools, prompts, ctx) ==
    IF entries = <<>> THEN Success(tools, prompts, ctx)
    ELSE LET entryName == Head(entries).key
             selection == Head(entries).value
         IN  IF HasOwn(config.mcpServers, entryName)
             THEN LET r == handleServerEntry(profileName, entryName, selection,
                                             tools, prompts, ctx)
                  IN  IF r.ok
                      THEN resolveEntries(profileName, Tail(entries), stack,
                                          r.tools, r.prompts, r.ctx)
                      ELSE r
             ELSE IF HasOwn(config.profiles, entryName)
             THEN LET nested == resolveRecursive(entryName, stack, ctx)
                  IN  IF nested.ok
                      THEN LET r == mergeNestedProfile(entryName, selection, nested,
                                                       tools, prompts, nested.ctx)
                           IN  resolveEntries(profileName, Tail(entries), stack,
                                              r.tools, r.prompts, r.ctx)
                      ELSE nested
             ELSE Failure("InvalidRequest",
                          "Unknown server or profile '" \o entryName
                             \o "' referenced by profile '" \o profileName \o "'",
                          ctx)

resolveRecursive(profileName, stack, ctx) ==
    IF Cached(ctx, profileName)
    THEN LET cached == MapGet(ctx.cache, profileName)
         IN  Success(cached.tools, cached.prompts, ctx)
    ELSE IF profileName \in Range(stack)
    THEN Failure("InvalidRequest",
                 "Circular profile reference detected: "
                    \o join(CyclePath(stack, profileName), " -> "),
                 ctx)
    ELSE LET profileConfig == PropertyGet(config.profiles, profileName)
             pushed == Entered(ctx, profileName)
             asserted == assertProfile(profileConfig, profileName, pushed)
         IN  IF ~asserted.ok THEN asserted
             ELSE LET result == resolveEntries(profileName,
                                    ObjectEntries(profileConfig.v),
                                    Append(stack, profileName), <<>>, <<>>, pushed)
                  IN  IF result.ok
                      THEN [result EXCEPT !.ctx = CacheSet(@, profileName, result)]
                      ELSE result

\* ProfileResolver.resolve with a new resolver: an empty cache.
resolve(profileName, answers) ==
    resolveRecursive(profileName, <<>>,
                     [cache |-> <<>>, warnings |-> <<>>, answers |-> answers,
                      entered |-> <<>>, called |-> <<>>])

\* ---- Profile ---------------------------------------------------------------
NoProfile ==
    [status |-> "none", name |-> "", code |-> "", message |-> "",
     tools |-> <<>>, prompts |-> <<>>, toolList |-> <<>>, promptList |-> <<>>,
     warnings |-> <<>>, answers |-> <<>>]

NoDispatch ==
    [method |-> "none", params |-> <<>>, status |-> "none", code |-> "",
     message |-> "", forwarded |-> <<>>, result |-> ""]

\* Array.from(map.values()).map(entry => entry.tool)
Descriptors(m) == [i \in DOMAIN m |-> m[i].value.descriptor]

\* Profile.create: a new resolver, resolve(profileName), new Profile(...);
\* the error of resolve() is the error of create().
ProfileCreate(profileName, answers) ==
    LET r == resolve(profileName, answers)
    IN  IF r.ok
        THEN [status |-> "ok", name |-> profileName, code |-> "", message |-> "",
              tools |-> r.tools, prompts |-> r.prompts,
              toolList |-> Descriptors(r.tools),
              promptList |-> Descriptors(r.prompts),
              warnings |-> r.ctx.warnings, answers |-> answers]
        ELSE [NoProfile EXCEPT !.status = "error", !.name = profileName,
                               !.code = r.code, !.message = r.message,
                               !.warnings = r.ctx.warnings, !.answers = answers]

\* The exported name is passed on as it came.
Forwarded_Exported(params, entry) == params

\* { ...params, name: entry.originalName }
Forwarded(params, entry) == [params EXCEPT !.name = entry.originalName]

\* Profile.callTool / Profile.getPrompt on map m: unknown names are
\* rejected, known ones forwarded to the entry's connector, whose answer
\* (a result, or "" for a rejection) is the answer of the call.
\* an unknown name rejected as invalid parameters
Rejection_InvalidParams(method, what, params) ==
    [method |-> method, params |-> params, status |-> "error",
     code |-> "InvalidParams",
     message |-> "Unknown " \o what \o ": " \o params.name,
     forwarded |-> <<>>, result |-> ""]

\* throw new McpError(ErrorCode.MethodNotFound, `Unknown tool: ${params.name}`)
Rejection(method, what, params) ==
    [method |-> method, params |-> params, status |-> "error",
     code |-> "MethodNotFound",
     message |-> "Unknown " \o what \o ": " \o params.name,
     forwarded |-> <<>>, result |-> ""]

Forward(method, what, m, params, answer) ==
    IF ~MapHas(m, params.name)
    THEN Rejection(method, what, params)
    ELSE LET entry == MapGet(m, params.name)
             call == [connector |-> entry.connector, method |-> method,
                      params |-> Forwarded(params, entry), answer |-> answer]
         IN  [method |-> method, params |-> params,
              status |-> IF call.answer = "" THEN "error" ELSE "ok",
              code |-> IF call.answer = "" THEN "Upstream" ELSE "",
              message |-> "",
              forwarded |-> <<call>>,
              result |-> call.answer]

\* ---- configurations, upstreams and the calls of a client -------------------
\* The configurations: servers "alpha" and "7", profiles "p" and "q".  The
\* first entry of p takes any selection, its further entries and the entry
\* of q a selection that sets the prefix only.  Entries may name a server, a
\* profile, or nothing that exists (a Config that was not validated).
Prefixes == {Undefined, False, Str(""), Str("x__")}

ToolLists == {Undefined, List(<<>>), List(<<"search">>), List(<<"alpha__search">>)}

PromptLists == {Undefined, List(<<"tz">>)}

Selections == [prefix : Prefixes, tools : ToolLists, prompts : PromptLists]

PlainSelections ==
    {[prefix |-> x, tools |-> Undefined, prompts |-> Undefined] :
        x \in {Undefined, False, Str("x__")}}

DefaultSelection == [prefix |-> Undefined, tools |-> Undefined, prompts |-> Undefined]

Entry(k, selection) == [key |-> k, value |-> selection]

FirstEntries ==
    {Entry(k, s) : k \in {"alpha", "7", "q"}, s \in Selections}
        \cup {Entry(k, DefaultSelection) : k \in {"p", "ghost"}}

FurtherEntries == {Entry(k, s) : k \in {"alpha", "7", "q"}, s \in PlainSelections}

NestedEntries ==
    {Entry(k, s) : k \in {"alpha", "7"}, s \in PlainSelections}
        \cup {Entry(k, DefaultSelection) : k \in {"p", "q", "ghost"}}

\* the definitions of up to n entries: one of FirstEntries, then
\* FurtherEntries under keys not used yet
RECURSIVE DefinitionsUpTo(_)
DefinitionsUpTo(n) ==
    IF n = 1 THEN {<<e>> : e \in FirstEntries}
    ELSE LET shorter == DefinitionsUpTo(n - 1)
         IN  shorter \cup
             {Append(pair[1], pair[2]) :
                 pair \in {x \in {d \in shorter : Len(d) = n - 1} \X FurtherEntries :
                              ~HasOwn(x[1], x[2].key)}}

RootDefinitions == DefinitionsUpTo(MaxEntries)

NestedDefinitions == {<<>>} \cup {<<e>> : e \in NestedEntries}

McpServers ==
    <<[key |-> "alpha", value |-> "http"], [key |-> "7", value |-> "stdio"]>>

NewConfig(rootDef, nestedDef) ==
    [profiles |-> <<[key |-> "p", value |-> rootDef],
                    [key |-> "q", value |-> nestedDef]>>,
     mcpServers |-> McpServers]

Configs == {NewConfig(r, n) : r \in RootDefinitions, n \in NestedDefinitions}

\* the configurations p has one entry in
SmallConfigs == {c \in Configs : Len(c.profiles[1].value) = 1}

Descriptor(serverId, name) ==
    [name |-> name, description |-> name \o " of " \o serverId]

\* What the upstream servers list, and whether a connect to them succeeds.
Upstreams ==
    ("alpha" :> [tools |-> <<Descriptor("alpha", "search"), Descriptor("alpha", "time")>>,
                 prompts |-> <<Descriptor("alpha", "tz")>>, running |-> TRUE])
    @@ ("7" :> [tools |-> <<Descriptor("7", "time"), Descriptor("7", "search")>>,
                prompts |-> <<Descriptor("7", "tz")>>, running |-> TRUE])

\* What the connector calls awaited by one resolution answer: every call
\* succeeds, or the calls of one kind on one connector fail.
OkAnswer == [ensureReady |-> "ok", listTools |-> "ok", listPrompts |-> "ok"]

Faults ==
    {[OkAnswer EXCEPT !.ensureReady = "fail"],
     [OkAnswer EXCEPT !.listTools = "methodNotFound"],
     [OkAnswer EXCEPT !.listTools = "error"],
     [OkAnswer EXCEPT !.listPrompts = "methodNotFound"],
     [OkAnswer EXCEPT !.listPrompts = "error"]}

OkAnswers == [s \in DOMAIN Upstreams |-> OkAnswer]

AllAnswers ==
    {OkAnswers} \cup {[OkAnswers EXCEPT ![s] = f] : s \in DOMAIN Upstreams, f \in Faults}

\* The profile names requested: defined ones, one that is not, and one that
\* is a property of Object.prototype.
RequestNames == {"p", "q", "missing", "constructor"}

\* The names a client calls: the exported ones, an upstream name, a name
\* with the default prefix.
CallNames(m) == {m[i].key : i \in DOMAIN m} \cup {"search", "alpha__search", "tz"}

Arguments == {"{}", "{n:1}"}

\* a connector's answer to callTool / getPrompt: a result, or "" (rejected)
ConnectorAnswers == {"", "result"}

ResolverIdle ==
    /\ config = NewConfig(<<>>, <<>>)
    /\ upstream = Upstreams
    /\ resolved = NoProfile
    /\ dispatched = NoDispatch

\* Profile.create({config, profileName, registry})
Create(profileName, answers) ==
    /\ resolved' = ProfileCreate(profileName, answers)
    /\ dispatched' = NoDispatch
    /\ UNCHANGED <<connVars, hostVars, cleanVars, req, config, upstream, auxVars>>

\* profile.callTool(params)
ProfileCallTool(params, answer) ==
    /\ resolved.status = "ok"
    /\ params.name \in CallNames(resolved.tools)
    /\ dispatched' = Forward("callTool", "tool", resolved.tools, params, answer)
    /\ UNCHANGED <<connVars, hostVars, cleanVars, req, config, upstream, resolved, auxVars>>

\* profile.getPrompt(params)
ProfileGetPrompt(params, answer) ==
    /\ resolved.status = "ok"
    /\ params.name \in CallNames(resolved.prompts)
    /\ dispatched' = Forward("getPrompt", "prompt", resolved.prompts, params, answer)
    /\ UNCHANGED <<connVars, hostVars, cleanVars, req, config, upstream, resolved, auxVars>>

\* ---- CleanupManager --------------------------------------------------------
\* The emitters are Node EventEmitters (on and off); "undefined" stands for
\* watchEmitter(undefined, ...).  A callback is named by the position of its
\* register() call, a listener by the order of its creation.
Emitters == {"outgoing", "socket"}
Events == {"close", "finish", "error"}
EventLists == {<<"close">>, <<"close", "error">>}

\* new CleanupManager(...): cleanedUp, callbacks, listeners; attached[e] is
\* the listener list of emitter e; microtasks are the pending
\* Promise.resolve().then(() => callback()) of run(); warnings is the log.
\* detached is not in the code: it keeps, for the properties, the
\* subscriptions that run() went through.
NewCleanup ==
    [cleanedUp |-> FALSE, callbacks |-> <<>>, listeners |-> <<>>,
     attached |-> [e \in Emitters |-> <<>>], created |-> 0,
     microtasks |-> <<>>, warnings |-> <<>>, detached |-> <<>>]

\* register(callback)
register(w, callback) == [w EXCEPT !.callbacks = Append(@, callback)]

\* watchEmitter(emitter, events)
RECURSIVE watchEmitter(_, _, _)
watchEmitter(w, emitter, events) ==
    IF emitter = "undefined" \/ events = <<>> THEN w
    ELSE LET listener == w.created + 1
             event == Head(events)
         IN  watchEmitter(
                 [w EXCEPT
                    !.created = listener,
                    !.attached[emitter] =
                        Append(@, [event |-> event, listener |-> listener]),
                    !.listeners =
                        Append(@, [emitter |-> emitter, event |-> event,
                                   listener |-> listener])],
                 emitter, Tail(events))

\* run() without the off() calls
Detach_Nothing(attached, listeners) == attached

\* emitter.off(event, listener) for every recorded listener
Detach(attached, listeners) ==
    [e \in Emitters |->
        LET Kept(a) ==
                \A i \in DOMAIN listeners :
                    ~(/\ listeners[i].emitter = e
                      /\ listeners[i].event = a.event
                      /\ listeners[i].listener = a.listener)
        IN  SelectSeq(attached[e], Kept)]

\* run({ cause }): cause is "Error" or "none"
run(w, cause) ==
    IF w.cleanedUp THEN w
    ELSE [w EXCEPT
            !.cleanedUp = TRUE,
            !.warnings = IF cause = "Error"
                         THEN Append(@, "Stream terminated with error") ELSE @,
            !.attached = Detach(w.attached, w.listeners),
            !.listeners = <<>>,
            !.detached = w.listeners,
            !.microtasks = @ \o w.callbacks]

\* emitter.emit(event, arg): the listeners attached when the emit begins
\* are called in order; each listener of the manager calls run().
ListenersOf(w, emitter, event) ==
    LET For(a) == a.event = event
        found == SelectSeq(w.attached[emitter], For)
    IN  [i \in DOMAIN found |-> found[i].listener]

RECURSIVE CallListeners(_, _, _)
CallListeners(w, n, arg) ==
    IF n = 0 THEN w ELSE CallListeners(run(w, arg), n - 1, arg)

emit(w, emitter, event, arg) ==
    CallListeners(w, Len(ListenersOf(w, emitter, event)), arg)

Emitted(w, emitter, event, by) ==
    [emitter |-> emitter, event |-> event, by |-> by,
     afterRun |-> w.cleanedUp, called |-> ListenersOf(w, emitter, event)]

NoEmit ==
    [emitter |-> "", event |-> "", by |-> "", afterRun |-> FALSE,
     called |-> <<>>]

\* the .catch of run(): nothing logged
Caught_Silent(w) == w

\* .catch((error) => this.logger.warn(..., 'Cleanup callback failed'))
Caught(w) == [w EXCEPT !.warnings = Append(@, "Cleanup callback failed")]

CleanupIdle ==
    /\ cleanup = NewCleanup
    /\ callbackRuns = <<>>
    /\ lastEmit = NoEmit

\* cleanup.register(callback)
Register ==
    /\ Len(cleanup.callbacks) < MaxCallbacks
    /\ cleanup' = register(cleanup, Len(cleanup.callbacks) + 1)
    /\ callbackRuns' = Append(callbackRuns,
                            [count |-> 0, state |-> "none",
                             late |-> cleanup.cleanedUp])
    /\ UNCHANGED <<connVars, hostVars, resVars, req, lastEmit, auxVars>>

\* cleanup.watchEmitter(emitter, events)
WatchEmitter(emitter, events) ==
    /\ cleanup.created + Len(events) <= MaxListeners
    /\ cleanup' = watchEmitter(cleanup, emitter, events)
    /\ UNCHANGED <<connVars, hostVars, resVars, req, callbackRuns, lastEmit, auxVars>>

\* cleanup.run({ cause })
Run(cause) ==
    /\ cleanup' = run(cleanup, cause)
    /\ UNCHANGED <<connVars, hostVars, resVars, req, callbackRuns, lastEmit, auxVars>>

\* an event of a watched emitter, emitted by its owner
Emit(emitter, event, arg) ==
    /\ cleanup' = emit(cleanup, emitter, event, arg)
    /\ lastEmit' = Emitted(cleanup, emitter, event, "owner")
    /\ UNCHANGED <<connVars, hostVars, resVars, req, callbackRuns, auxVars>>

\* The next microtask of run(): callback() is invoked.  It returns, throws,
\* or returns a promise that is still pending; it may emit an event of a
\* watched emitter while it runs (emitter "" for none).
StartCallback(outcome, emitter, event) ==
    /\ cleanup.microtasks # <<>>
    /\ LET callback == Head(cleanup.microtasks)
           popped == [cleanup EXCEPT !.microtasks = Tail(@)]
           during == IF emitter = "" THEN popped
                     ELSE emit(popped, emitter, event, "none")
       IN  /\ cleanup' = IF outcome = "throws" THEN Caught(during) ELSE during
           /\ callbackRuns' =
                 [callbackRuns EXCEPT ![callback] =
                     [@ EXCEPT !.count = @ + 1, !.state = outcome]]
           /\ lastEmit' = IF emitter = "" THEN lastEmit
                          ELSE Emitted(popped, emitter, event, "callback")
    /\ UNCHANGED <<connVars, hostVars, resVars, req, auxVars>>

\* the promise a callback returned settles
SettleCallback(callback, outcome) ==
    /\ callback \in DOMAIN callbackRuns
    /\ callbackRuns[callback].state = "pending"
    /\ cleanup' = IF outcome = "rejects" THEN Caught(cleanup) ELSE cleanup
    /\ callbackRuns' = [callbackRuns EXCEPT ![callback].state = outcome]
    /\ UNCHANGED <<connVars, hostVars, resVars, req, lastEmit, auxVars>>

\* ---- createApp: one request ------------------------------------------------
\* profile "" is a request without a profile query parameter (or an empty one).
Methods == {"POST", "GET", "DELETE", "PUT", "HEAD"}
Paths == {"/mcp", "/other"}
ProfileQueries == {"", "p", "q", "missing", "constructor"}

ALLOWED_METHODS == {"POST", "GET", "DELETE"}

NoResponse == [status |-> 0, code |-> "", message |-> ""]

\* return RESPONSE_ALREADY_SENT
RESPONSE_ALREADY_SENT == [status |-> 0, code |-> "", message |-> "already sent"]

\* new McpError(code, message)
McpError(code, message) == [mcp |-> TRUE, code |-> code, message |-> message]

\* every error turned into an internal error
toMcpError_Internal(error) == McpError("InternalError", error.message)

\* toMcpError(error): error is an McpError or another Error
toMcpError(error) ==
    IF error.mcp THEN error ELSE McpError("InternalError", error.message)

\* jsonErrorResponse(error, status)
jsonErrorResponse(error, status) ==
    [status |-> status, code |-> error.code, message |-> error.message]

\* pc: "idle" | "resolving" (await resolveActiveProfile) | "connecting"
\* (await server.connect) | "dispatching" (await dispatchRequest) | "done".
\* events are the events the outgoing stream has emitted; resolutions,
\* connects and dispatches count the calls of Profile.create,
\* server.connect and transport.handleRequest.
NoRequest ==
    [method |-> "", path |-> "", profile |-> "", pc |-> "idle",
     response |-> NoResponse, transport |-> FALSE, server |-> FALSE,
     manager |-> FALSE, events |-> {}, thrown |-> FALSE,
     resolutions |-> 0, connects |-> 0, dispatches |-> 0,
     connected |-> "none", handles |-> 0, previous |-> 0, cleaned |-> FALSE]

RequestIdle == req = NoRequest

\* app.post / app.get / app.delete('/mcp', handler), app.all('*', ...): the
\* routes a request may be given to.  The router is not part of the
\* sources; Hono answers HEAD by the GET route, so both are kept for HEAD.
Routes(method, path) ==
    IF path = "/mcp" /\ method \in ALLOWED_METHODS THEN {"handler"}
    ELSE IF path = "/mcp" /\ method = "HEAD" THEN {"handler", "notFound"}
    ELSE {"notFound"}

\* validateRequest(c)
validateRequest(method, profileName) ==
    IF method \notin ALLOWED_METHODS
    THEN [status |-> "error",
          response |-> jsonErrorResponse(
                           McpError("InvalidRequest", "Method not allowed"), 405)]
    ELSE IF profileName = ""
    THEN [status |-> "error",
          response |-> jsonErrorResponse(
                           McpError("InvalidRequest",
                                    "Missing profile query parameter"), 400)]
    ELSE [status |-> "ok", response |-> NoResponse]

\* A request arrives and is routed; the handler runs up to its first await.
Receive(method, path, profileName, route) ==
    /\ req.pc = "idle"
    /\ route \in Routes(method, path)
    /\ LET arrived == [req EXCEPT !.method = method, !.path = path,
                                  !.profile = profileName]
           validation == validateRequest(method, profileName)
       IN  req' =
             IF route = "notFound"
             THEN [arrived EXCEPT
                     !.pc = "done",
                     !.response = jsonErrorResponse(
                                      McpError("InvalidRequest", "Not found"), 404)]
             ELSE IF validation.status = "error"
             THEN [arrived EXCEPT !.pc = "done", !.response = validation.response]
             ELSE [arrived EXCEPT !.pc = "resolving", !.resolutions = @ + 1]
    /\ UNCHANGED <<connVars, hostVars, resVars, cleanVars, auxVars>>

\* resolveActiveProfile settles.  A failure is answered with 400; otherwise
\* the handler creates the transport, the server and the cleanup manager,
\* watches the outgoing stream, registers the two callbacks (1 closes the
\* transport, 2 the server) and calls server.connect(transport).
ResolvedWith(answers) ==
    /\ req.pc = "resolving"
    /\ LET created == ProfileCreate(req.profile, answers)
       IN  /\ resolved' = created
           /\ IF created.status = "error"
              THEN /\ req' = [req EXCEPT
                                !.pc = "done",
                                !.response = jsonErrorResponse(
                                    toMcpError(McpError(created.code,
                                                        created.message)),
                                    400)]
                   /\ UNCHANGED cleanVars
              ELSE /\ req' = [req EXCEPT !.pc = "connecting", !.transport = TRUE,
                                         !.server = TRUE, !.manager = TRUE,
                                         !.connects = @ + 1]
                   /\ cleanup' =
                         register(
                             register(
                                 watchEmitter(NewCleanup, "outgoing",
                                              <<"close", "finish", "error">>),
                                 1),
                             2)
                   /\ callbackRuns' =
                         [i \in 1..2 |->
                             [count |-> 0, state |-> "none", late |-> FALSE]]
                   /\ UNCHANGED lastEmit
    /\ UNCHANGED <<hostVars, config, upstream, dispatched, auxVars>>

\* The resolution awaited by a handler whose connectors answer answers.
Resolved(answers) ==
    /\ ResolvedWith(answers)
    /\ UNCHANGED connVars

\* ---- requests and the connectors of the registry ---------------------------
\* The registry holds the connector created for the i-th key of
\* config.mcpServers as connector i.
ConnectorOf(id) ==
    CHOOSE i \in DOMAIN config.mcpServers : config.mcpServers[i].key = id

\* new ConnectorRegistry(config): createConnector for every descriptor
NewRegistry ==
    [c \in ConnIds |->
        NewConnector(IF c \in DOMAIN McpServers THEN McpServers[c].value
                     ELSE "http")]

\* what `await connector.ensureReady()` answers on connector cr when no
\* other call is in progress on it: the disposed error, at once with a
\* client, the outcome of the promise in the slot, or that of a new
\* initialize(), which succeeds when the upstream is running
ReadyAnswer(cr, as, running) ==
    IF cr.disposed THEN "fail"
    ELSE IF cr.client # 0 THEN "ok"
    ELSE IF cr.initPromise # 0
    THEN (IF as[cr.initPromise].state = "ok" THEN "ok" ELSE "fail")
    ELSE IF running THEN "ok" ELSE "fail"

\* an ensureReady() whose failure disposes the connector
Readied_DisposesOnFailure(w, c, running, hasStderr) ==
    [w EXCEPT !.conn[c] = IF ReadyAnswer(@, w.attempts, running) = "ok" THEN @
                          ELSE BaseDisposeConn(@)]

\* ensureReady() on connector c run to its end; w holds the connectors
\* and the initialize() calls made so far
Readied(w, c, running, hasStderr) ==
    LET cr == w.conn[c]
        a == Len(w.attempts) + 1
        started == [createTransport(cr, hasStderr) EXCEPT !.initPromise = a]
    IN  IF cr.disposed \/ cr.client # 0 THEN w
        ELSE IF cr.initPromise # 0
        THEN (IF w.attempts[cr.initPromise].state = "ok" THEN w
              ELSE [w EXCEPT !.conn[c] = ClearSlot(cr)])
        ELSE IF running
        THEN [conn |-> [w.conn EXCEPT ![c] = [started EXCEPT !.client = a]],
              attempts |-> Append(w.attempts,
                                  [conn |-> c, state |-> "ok", closes |-> 0])]
        ELSE [conn |-> [w.conn EXCEPT ![c] = ClearSlot(started)],
              attempts |-> Append(w.attempts,
                                  [conn |-> c, state |-> "failed", closes |-> 0])]

\* listTools() and listPrompts() after a successful ensureReady(): an
\* empty cache is filled with what the upstream lists
ListedBoth(cr) ==
    IF cr.client = 0 THEN cr
    ELSE LET tools == IF cr.toolCache = 0 THEN StoreListing(cr, "tools", 1) ELSE cr
         IN  IF tools.promptCache = 0 THEN StoreListing(tools, "prompts", 1)
             ELSE tools

\* the calls handleServerEntry makes for the servers of called, in order
RECURSIVE Visited(_, _, _)
Visited(w, called, hasStderr) ==
    IF called = <<>> THEN w
    ELSE LET c == ConnectorOf(Head(called))
             readied == Readied(w, c, upstream[Head(called)].running, hasStderr)
         IN  Visited([readied EXCEPT !.conn[c] = ListedBoth(@)],
                     Tail(called), hasStderr)

\* what the connectors of the registry answer to a resolution that begins
\* now: listings succeed on a connector that is ready
AnswersNow ==
    [s \in DOMAIN upstream |->
        [OkAnswer EXCEPT !.ensureReady =
            ReadyAnswer(conn[ConnectorOf(s)], attempts, upstream[s].running)]]

\* resolveActiveProfile settles for a handler that shares the connectors
\* of the registry with the requests before it.
ServeResolved(hasStderr) ==
    LET visited == Visited([conn |-> conn, attempts |-> attempts],
                           resolve(req.profile, AnswersNow).ctx.called,
                           hasStderr)
    IN  /\ ResolvedWith(AnswersNow)
        /\ Len(visited.attempts) <= MaxAttempts
        /\ conn' = visited.conn
        /\ attempts' = visited.attempts
        /\ UNCHANGED <<task, disposeCalls, calls>>

\* The handler has returned and the next request arrives: a new request,
\* and for it a new transport, server and cleanup manager.
RequestEnded ==
    /\ req.pc = "done"
    /\ cleanup.microtasks = <<>>
    /\ \A i \in DOMAIN callbackRuns : callbackRuns[i].state # "pending"
    /\ req.previous < MaxRequests
    /\ req' = [NoRequest EXCEPT !.previous = req.previous + 1,
                                !.cleaned = req.cleaned \/ cleanup.cleanedUp]
    /\ cleanup' = NewCleanup
    /\ callbackRuns' = <<>>
    /\ lastEmit' = NoEmit
    /\ UNCHANGED <<connVars, hostVars, resVars, auxVars>>

\* An upstream server goes down or comes up.
UpstreamChanges(s) ==
    /\ s \in DOMAIN upstream
    /\ upstream' = [upstream EXCEPT ![s].running = ~@]
    /\ UNCHANGED <<connVars, hostVars, config, resolved, dispatched, cleanVars,
                   req, auxVars>>

\* dispatchRequest(...) up to its first await: a POST awaits
\* context.req.json(), any other method calls transport.handleRequest.
dispatchRequest(r) ==
    IF r.method = "POST"
    THEN [r EXCEPT !.pc = "parsing", !.dispatches = @ + 1]
    ELSE [r EXCEPT !.pc = "dispatching", !.dispatches = @ + 1, !.handles = @ + 1]

\* a handler that dispatches although server.connect rejected
ConnectFailed_GoesOn(r) == dispatchRequest([r EXCEPT !.connected = "failed"])

\* server.connect rejected: the catch block of the handler
ConnectFailed(r) ==
    [r EXCEPT !.connected = "failed", !.pc = "done", !.thrown = TRUE,
              !.response = RESPONSE_ALREADY_SENT]

\* server.connect(transport) settles: dispatchRequest is called, or the
\* catch block runs cleanup.run({ cause: error }).
Connected(ok) ==
    /\ req.pc = "connecting"
    /\ IF ok
       THEN /\ req' = dispatchRequest([req EXCEPT !.connected = "ok"])
            /\ UNCHANGED cleanup
       ELSE /\ req' = ConnectFailed(req)
            /\ cleanup' = run(cleanup, "Error")
    /\ UNCHANGED <<connVars, hostVars, resVars, callbackRuns, lastEmit, auxVars>>

\* context.req.json() settles (a failure is logged, and parsedBody stays
\* undefined): transport.handleRequest is called.
BodyParsed ==
    /\ req.pc = "parsing"
    /\ req' = [req EXCEPT !.pc = "dispatching", !.handles = @ + 1]
    /\ UNCHANGED <<connVars, hostVars, resVars, cleanVars, auxVars>>

\* transport.handleRequest settles, and with it dispatchRequest.
Dispatched(ok) ==
    /\ req.pc = "dispatching"
    /\ req' = [req EXCEPT !.pc = "done", !.thrown = ~ok,
                          !.response = RESPONSE_ALREADY_SENT]
    /\ cleanup' = IF ok THEN cleanup ELSE run(cleanup, "Error")
    /\ UNCHANGED <<connVars, hostVars, resVars, callbackRuns, lastEmit, auxVars>>

\* The outgoing stream emits close, finish or error: each once, and nothing
\* after close.  The client may go away at any time, also while the
\* handler awaits the resolution.  The events of a stream that carries an
\* error response of the handler are left out: nothing listens to them.
StreamEvent(event) ==
    /\ req.pc # "idle"
    /\ req.response.status = 0
    /\ event \notin req.events
    /\ "close" \notin req.events
    /\ req' = [req EXCEPT !.events = @ \cup {event}]
    /\ cleanup' = emit(cleanup, "outgoing", event,
                       IF event = "error" THEN "Error" ELSE "none")
    /\ lastEmit' = Emitted(cleanup, "outgoing", event, "owner")
    /\ UNCHANGED <<connVars, hostVars, resVars, callbackRuns, auxVars>>

\* ---- StdioConnector: the stderr log ----------------------------------------
\* The lines a server writes to stderr, as readline delivers them.
RawLines == {"ready", "ready  ", "oops"}

\* rawLine.trimEnd()
trimEnd(rawLine) == IF rawLine = "ready  " THEN "ready" ELSE rawLine

\* `[${new Date().toISOString()}] [${this.id}] ${line}\n`, without the time
LogRecord(id, rawLine) == "[" \o id \o "] " \o trimEnd(rawLine) \o "\n"

\* stderrWriteChain is the last link of chain; link i is the promise of
\* the i-th enqueueStderrLine: "waiting" for the promise before it,
\* "writing" (appendFile called), "fulfilled", "rejected" (appendFile
\* failed), or "skipped" (rejected without a call of appendFile).
\* log is the content of the log file, started the order of the calls.
\* warnings are the warnings logged about the chain.
NoStderr == [chain |-> <<>>, log |-> <<>>, started |-> <<>>, warnings |-> <<>>]

StderrIdle == stderr = NoStderr

\* a chain without the catch: a rejection is passed on
catchUndefined_Rethrow(state) == state

\* .catch(() => undefined): the state of the promise it returns
catchUndefined(state) == "fulfilled"

\* the promise before link i: Promise.resolve() for the first
Before(chain, i) == IF i = 1 THEN "fulfilled" ELSE chain[i - 1].state

\* A dispose() is awaiting the writes of lines that came before it: the
\* stderr interface those lines came through has been closed.
Flushing ==
    \E t \in Tasks : /\ task[t].op = "dispose"
                     /\ task[t].pc = "flush_wait"
                     /\ task[t].await > 0

\* readline 'line': enqueueStderrLine(rawLine); afterClose records that
\* the line came while a dispose() was awaiting the earlier writes.
EnqueueStderrLine(rawLine) ==
    /\ Len(stderr.chain) < MaxLines
    /\ stderr' = [stderr EXCEPT
                     !.chain = Append(@, [record |-> LogRecord("7", rawLine),
                                          state |-> "waiting",
                                          afterClose |-> Flushing])]
    /\ UNCHANGED <<connVars, hostVars, resVars, cleanVars, req, lists>>

\* The 'line' listener of the readline interface the connector holds.
StderrLine(rawLine) ==
    /\ conn[Focus].kind = "stdio"
    /\ conn[Focus].stderrInterface
    /\ EnqueueStderrLine(rawLine)

\* The promise before link i has settled: .then(() => appendFile(...))
\* calls appendFile if what the catch returned is fulfilled.
StartWrite(i) ==
    /\ i \in DOMAIN stderr.chain
    /\ stderr.chain[i].state = "waiting"
    /\ HasSettled(Before(stderr.chain, i))
    /\ IF catchUndefined(Before(stderr.chain, i)) = "fulfilled"
       THEN stderr' = [stderr EXCEPT !.chain[i].state = "writing",
                                     !.started = Append(@, i)]
       ELSE stderr' = [stderr EXCEPT !.chain[i].state = "skipped"]
    /\ UNCHANGED <<connVars, hostVars, resVars, cleanVars, req, lists>>

\* appendFile settles: the record is in the file, or the write failed.
FinishWrite(i, ok) ==
    /\ i \in DOMAIN stderr.chain
    /\ stderr.chain[i].state = "writing"
    /\ stderr' = [stderr EXCEPT
                     !.chain[i].state = IF ok THEN "fulfilled" ELSE "rejected",
                     !.log = IF ok THEN Append(@, stderr.chain[i].record) ELSE @]
    /\ UNCHANGED <<connVars, hostVars, resVars, cleanVars, req, lists>>

\* ---- the lists of a Profile and of a connector -----------------------------
\* Arrays are objects: heap[a] is the content of array a, and a variable or
\* field that holds an array holds its number (0 for null).  toolList and
\* promptList are the fields of one Profile, toolCache and promptCache
\* those of the connector "alpha", whose client is connected; returned are
\* the arrays the callers were handed.
ListsConfig == NewConfig(<<Entry("alpha", DefaultSelection)>>, <<>>)

ListedProfile == ProfileCreate("p", OkAnswers)

NoLists ==
    [heap |-> <<>>, toolList |-> 0, promptList |-> 0, toolCache |-> 0,
     promptCache |-> 0, returned |-> <<>>]

ListsIdle == lists = NoLists

\* new Profile({ name, tools, prompts }): toolList and promptList are new
\* arrays, Array.from(map.values()).map(...)
NewProfileLists ==
    [NoLists EXCEPT
        !.heap = <<ListedProfile.toolList, ListedProfile.promptList>>,
        !.toolList = 1, !.promptList = 2]

\* the array itself instead of a copy
Spread_Alias(heap, a) == [heap |-> heap, array |-> a]

\* [...array]: a new array of the same elements
Spread(heap, a) == [heap |-> Append(heap, heap[a]), array |-> Len(heap) + 1]

Returned(l, from, kind, a) ==
    [l EXCEPT !.returned = Append(@, [from |-> from, kind |-> kind, array |-> a])]

\* profile.listTools() / profile.listPrompts(): return this.toolList
ProfileList(kind) ==
    /\ Len(lists.returned) < MaxReturned
    /\ lists' = Returned(lists, "profile", kind,
                     IF kind = "tools" THEN lists.toolList ELSE lists.promptList)
    /\ UNCHANGED <<connVars, hostVars, resVars, cleanVars, req, stderr>>

\* connector.listTools() / listPrompts() once the upstream has answered:
\* the answer becomes the cache if there is none, and a copy is returned.
ConnectorList(kind) ==
    /\ Len(lists.returned) < MaxReturned
    /\ LET cache == IF kind = "tools" THEN lists.toolCache ELSE lists.promptCache
           answer == IF kind = "tools" THEN upstream["alpha"].tools
                     ELSE upstream["alpha"].prompts
           heap1 == IF cache = 0 THEN Append(lists.heap, answer) ELSE lists.heap
           cache1 == IF cache = 0 THEN Len(heap1) ELSE cache
           copy == Spread(heap1, cache1)
       IN  lists' = Returned(
                        [lists EXCEPT
                            !.heap = copy.heap,
                            !.toolCache = IF kind = "tools" THEN cache1 ELSE @,
                            !.promptCache = IF kind = "prompts" THEN cache1 ELSE @],
                        "connector", kind, copy.array)
    /\ UNCHANGED <<connVars, hostVars, resVars, cleanVars, req, stderr>>

\* A caller changes a list it was handed: push, pop, or list[0] = x.
Mutations == {"push", "pop", "replace"}

Mutated(array, how) ==
    LET x == Descriptor("caller", "x")
    IN  IF how = "push" THEN Append(array, x)
        ELSE IF array = <<>> THEN array
        ELSE IF how = "pop" THEN SubSeq(array, 1, Len(array) - 1)
        ELSE [array EXCEPT ![1] = x]

Mutate(r, how) ==
    /\ r \in DOMAIN lists.returned
    /\ Len(lists.heap[lists.returned[r].array]) < MaxListLength
    /\ lists' = [lists EXCEPT
                    !.heap[lists.returned[r].array] = Mutated(@, how)]
    /\ UNCHANGED <<connVars, hostVars, resVars, cleanVars, req, stderr>>

\* ---- specifications ------------------------------------------------------
HostInit ==
    /\ shuttingDown = FALSE
    /\ sigListeners = Signals
    /\ httpServer = "listening"
    /\ forceExitTimer = "unset"
    /\ disposeAllRun = [calls |-> 0, state |-> "none", message |-> ""]
    /\ proc = "running"
    /\ signalsSent = 0

\* Spec: callers of one connector of a freshly constructed registry.
Init ==
    /\ \E kind \in {"http", "stdio"} :
         conn = [c \in ConnIds |->
                   NewConnector(IF c = Focus THEN kind ELSE "http")]
    /\ attempts = <<>>
    /\ task = [t \in Tasks |-> IdleTask]
    /\ disposeCalls = [c \in ConnIds |-> 0]
    /\ calls = 0
    /\ HostInit
    /\ ResolverIdle
    /\ CleanupIdle
    /\ RequestIdle
    /\ StderrIdle
    /\ ListsIdle

Next ==
    \/ \E t \in Tasks : EnsureReady(t)
    \/ \E t \in Tasks : ListTools(t)
    \/ \E t \in Tasks : ListPrompts(t)
    \/ \E t \in Tasks : CallTool(t)
    \/ \E t \in Tasks : GetPrompt(t)
    \/ \E t \in Tasks : Dispose(t)
    \/ \E a \in 1..MaxAttempts, ok \in BOOLEAN : InitializeSettle(a, ok)
    \/ \E t \in Tasks : EnsureReadyResolved(t)
    \/ \E a \in 1..MaxAttempts : EnsureReadyRejected(a)
    \/ \E t \in Tasks : EnsureReadyRejectedLate(t)
    \/ \E t \in Tasks : ListAfterReady(t)
    \/ \E t \in Tasks, v \in 0..NumListVersions : ListResponse(t, v)
    \/ \E t \in Tasks : CallAfterReady(t)
    \/ \E t \in Tasks, ok \in BOOLEAN : CallResponse(t, ok)
    \/ \E t \in Tasks : DisposeFlushed(t)
    \/ \E t \in Tasks, msg \in CloseMessages \cup {""} : DisposeClosed(t, msg)

Spec == Init /\ [][Next]_vars

\* SpecShutdown: the serving process from the moment runServe has installed
\* its signal listeners.  Every connector has been used by earlier requests:
\* its one initialisation attempt has succeeded (the client is latched) or
\* failed.
InitShutdown ==
    /\ \E kinds \in [ConnIds -> {"http", "stdio"}],
          ready \in [ConnIds -> BOOLEAN],
          piped \in [ConnIds -> BOOLEAN] :
         /\ \A c \in ConnIds : piped[c] => kinds[c] = "stdio"
         /\ conn = [c \in ConnIds |->
                      [NewConnector(kinds[c]) EXCEPT
                         !.client = IF ready[c] THEN c ELSE 0,
                         !.stderrInterface = piped[c]]]
         /\ attempts = [c \in ConnIds |->
                          [conn |-> c,
                           state |-> IF ready[c] THEN "ok" ELSE "failed",
                           closes |-> 0]]
    /\ task = [t \in Tasks |-> IdleTask]
    /\ disposeCalls = [c \in ConnIds |-> 0]
    /\ calls = 0
    /\ HostInit
    /\ ResolverIdle
    /\ CleanupIdle
    /\ RequestIdle
    /\ StderrIdle
    /\ ListsIdle

NextShutdown ==
    \/ \E sig \in Signals : Signal(sig)
    \/ \E closeError \in BOOLEAN : HttpCloseDone(closeError)
    \/ \E t \in Tasks : DisposeFlushed(t)
    \/ \E t \in Tasks, msg \in CloseMessages \cup {""} : DisposeClosed(t, msg)
    \/ ShutdownComplete
    \/ ForceExit
    \/ LoopDrained

SpecShutdown == InitShutdown /\ [][NextShutdown]_vars

\* FairShutdown: a due timer fires and a settled promise runs its
\* continuation as long as the process lives; nothing makes the HTTP server
\* finish closing or an upstream answer client.close().
FairShutdown ==
    /\ SpecShutdown
    /\ WF_vars(ForceExit)
    /\ WF_vars(ShutdownComplete)

\* ---- SpecProfile, SpecDispatch ---------------------------------------------
ConnectorsIdle ==
    /\ conn = [c \in ConnIds |-> NewConnector("http")]
    /\ attempts = <<>>
    /\ task = [t \in Tasks |-> IdleTask]
    /\ disposeCalls = [c \in ConnIds |-> 0]
    /\ calls = 0

InitProfile ==
    /\ config \in Configs
    /\ upstream = Upstreams
    /\ resolved = NoProfile
    /\ dispatched = NoDispatch
    /\ ConnectorsIdle
    /\ HostInit
    /\ CleanupIdle
    /\ RequestIdle
    /\ StderrIdle
    /\ ListsIdle

\* Every create() has a resolver of its own, so a second one of the same
\* configuration reaches nothing the first one does not.
NextProfile ==
    \E profileName \in RequestNames, answers \in AllAnswers :
        /\ resolved.status = "none"
        /\ Create(profileName, answers)

SpecProfile == InitProfile /\ [][NextProfile]_vars

\* SpecDispatch: calls on the profiles resolved while every upstream works.
InitDispatch ==
    /\ config \in SmallConfigs
    /\ upstream = Upstreams
    /\ resolved = NoProfile
    /\ dispatched = NoDispatch
    /\ ConnectorsIdle
    /\ HostInit
    /\ CleanupIdle
    /\ RequestIdle
    /\ StderrIdle
    /\ ListsIdle

AllParams(m) == [name : CallNames(m), arguments : Arguments]

NextDispatch ==
    \/ \E profileName \in {"p", "q"} : Create(profileName, OkAnswers)
    \/ \E params \in AllParams(resolved.tools), answer \in ConnectorAnswers :
          ProfileCallTool(params, answer)
    \/ \E params \in AllParams(resolved.prompts), answer \in ConnectorAnswers :
          ProfileGetPrompt(params, answer)

SpecDispatch == InitDispatch /\ [][NextDispatch]_vars

\* ---- SpecCleanup ------------------------------------------------------------
\* SpecCleanup: one CleanupManager used in any order by its owner, the
\* emitters it watches and the microtask queue.
InitCleanup ==
    /\ ConnectorsIdle
    /\ HostInit
    /\ ResolverIdle
    /\ CleanupIdle
    /\ RequestIdle
    /\ StderrIdle
    /\ ListsIdle

NextCleanup ==
    \/ Register
    \/ \E emitter \in Emitters \cup {"undefined"}, events \in EventLists :
          WatchEmitter(emitter, events)
    \/ \E cause \in {"none", "Error"} : Run(cause)
    \/ \E emitter \in Emitters, event \in Events, arg \in {"none", "Error"} :
          Emit(emitter, event, arg)
    \/ \E outcome \in {"returns", "throws", "pending"},
          emitter \in Emitters \cup {""}, event \in {"close"} :
          StartCallback(outcome, emitter, event)
    \/ \E callback \in 1..MaxCallbacks, outcome \in {"resolves", "rejects"} :
          SettleCallback(callback, outcome)

SpecCleanup == InitCleanup /\ [][NextCleanup]_vars

\* ---- SpecRequest ------------------------------------------------------------
\* SpecRequest: one request to the application, from its arrival to the end
\* of its cleanup.  The callbacks of the handler catch what close() throws,
\* so their promises resolve.
\* The configurations: one entry in p, at most one in q, each with the
\* default selection and none for server "7".  The upstreams work, or
\* alpha fails to initialise.
RequestConfigs ==
    {c \in SmallConfigs :
        \A i \in DOMAIN c.profiles :
            \A j \in DOMAIN c.profiles[i].value :
                /\ c.profiles[i].value[j].value = DefaultSelection
                /\ c.profiles[i].value[j].key # "7"}

RequestAnswers ==
    {OkAnswers, [OkAnswers EXCEPT !["alpha"].ensureReady = "fail"]}

InitRequest ==
    /\ config \in RequestConfigs
    /\ upstream = Upstreams
    /\ resolved = NoProfile
    /\ dispatched = NoDispatch
    /\ ConnectorsIdle
    /\ HostInit
    /\ CleanupIdle
    /\ RequestIdle
    /\ StderrIdle
    /\ ListsIdle

NextRequest ==
    \/ \E method \in Methods, path \in Paths, profileName \in ProfileQueries,
          route \in {"handler", "notFound"} :
          Receive(method, path, profileName, route)
    \/ \E answers \in RequestAnswers : Resolved(answers)
    \/ \E ok \in BOOLEAN : Connected(ok)
    \/ BodyParsed
    \/ \E ok \in BOOLEAN : Dispatched(ok)
    \/ \E event \in Events : StreamEvent(event)
    \/ StartCallback("pending", "", "close")
    \/ \E callback \in 1..2 : SettleCallback(callback, "resolves")

SpecRequest == InitRequest /\ [][NextRequest]_vars

\* SpecStream: the requests for profile p that pass the validation, on a
\* configuration in which p names one server.
InitStream ==
    /\ config = ListsConfig
    /\ upstream = Upstreams
    /\ resolved = NoProfile
    /\ dispatched = NoDispatch
    /\ ConnectorsIdle
    /\ HostInit
    /\ CleanupIdle
    /\ RequestIdle
    /\ StderrIdle
    /\ ListsIdle

NextStream ==
    \/ \E method \in {"GET", "POST"} : Receive(method, "/mcp", "p", "handler")
    \/ \E answers \in RequestAnswers : Resolved(answers)
    \/ \E ok \in BOOLEAN : Connected(ok)
    \/ BodyParsed
    \/ \E ok \in BOOLEAN : Dispatched(ok)
    \/ \E event \in Events : StreamEvent(event)
    \/ StartCallback("pending", "", "close")
    \/ \E callback \in 1..2 : SettleCallback(callback, "resolves")

SpecStream == InitStream /\ [][NextStream]_vars

\* FairStream: the calls the handler awaits settle, queued microtasks run,
\* the promises of the callbacks settle, and the outgoing stream of every
\* request closes in the end.
FairStream ==
    /\ SpecStream
    /\ WF_vars(\E answers \in RequestAnswers : Resolved(answers))
    /\ WF_vars(\E ok \in BOOLEAN : Connected(ok))
    /\ WF_vars(BodyParsed)
    /\ WF_vars(\E ok \in BOOLEAN : Dispatched(ok))
    /\ WF_vars(StreamEvent("close"))
    /\ WF_vars(StartCallback("pending", "", "close"))
    /\ WF_vars(\E callback \in 1..2 : SettleCallback(callback, "resolves"))

\* ---- SpecStderr --------------------------------------------------------------
\* SpecStderr: the stderr lines of the server behind one StdioConnector.
InitStderr ==
    /\ ConnectorsIdle
    /\ HostInit
    /\ ResolverIdle
    /\ CleanupIdle
    /\ RequestIdle
    /\ StderrIdle
    /\ ListsIdle

NextStderr ==
    \/ \E rawLine \in RawLines : EnqueueStderrLine(rawLine)
    \/ \E i \in 1..MaxLines : StartWrite(i)
    \/ \E i \in 1..MaxLines, ok \in BOOLEAN : FinishWrite(i, ok)

SpecStderr == InitStderr /\ [][NextStderr]_vars

\* ---- SpecLists ---------------------------------------------------------------
\* SpecLists: the callers of listTools / listPrompts of one profile and of
\* one connector, and what they do to the lists they get.
InitLists ==
    /\ config = ListsConfig
    /\ upstream = Upstreams
    /\ resolved = ListedProfile
    /\ dispatched = NoDispatch
    /\ ConnectorsIdle
    /\ HostInit
    /\ CleanupIdle
    /\ RequestIdle
    /\ StderrIdle
    /\ lists = NewProfileLists

NextLists ==
    \/ \E kind \in {"tools", "prompts"} : ProfileList(kind)
    \/ \E kind \in {"tools", "prompts"} : ConnectorList(kind)
    \/ \E r \in 1..MaxReturned, how \in Mutations : Mutate(r, how)

SpecLists == InitLists /\ [][NextLists]_vars

\* SpecGraph: profiles p, q and r that refer to each other and to the server
\* alpha in every way: self-references, cycles, and a profile two others
\* use.
GraphKeys == {"alpha", "p", "q", "r"}

GraphDefinitions ==
    {<<>>} \cup {<<Entry(a, DefaultSelection)>> : a \in GraphKeys}
        \cup {<<Entry(pair[1], DefaultSelection), Entry(pair[2], DefaultSelection)>> :
                 pair \in {x \in GraphKeys \X GraphKeys : x[1] # x[2]}}

GraphConfig(p, q, r) ==
    [profiles |-> <<[key |-> "p", value |-> p], [key |-> "q", value |-> q],
                    [key |-> "r", value |-> r]>>,
     mcpServers |-> McpServers]

InitGraph ==
    /\ \E p \in GraphDefinitions, q \in GraphDefinitions, r \in GraphDefinitions :
          config = GraphConfig(p, q, r)
    /\ upstream = Upstreams
    /\ resolved = NoProfile
    /\ dispatched = NoDispatch
    /\ ConnectorsIdle
    /\ HostInit
    /\ CleanupIdle
    /\ RequestIdle
    /\ StderrIdle
    /\ ListsIdle

NextGraph ==
    \E profileName \in {"p", "q"}, answers \in RequestAnswers :
        /\ resolved.status = "none"
        /\ Create(profileName, answers)

SpecGraph == InitGraph /\ [][NextGraph]_vars

\* SpecServe: requests for profile p served one after the other by one
\* registry, while the upstream servers come and go.
ServeConfig ==
    NewConfig(<<Entry("alpha", DefaultSelection), Entry("7", DefaultSelection)>>,
              <<>>)

InitServe ==
    /\ config = ServeConfig
    /\ upstream \in {[Upstreams EXCEPT !["alpha"].running = a, !["7"].running = b] :
                        a \in BOOLEAN, b \in BOOLEAN}
    /\ resolved = NoProfile
    /\ dispatched = NoDispatch
    /\ conn = NewRegistry
    /\ attempts = <<>>
    /\ task = [t \in Tasks |-> IdleTask]
    /\ disposeCalls = [c \in ConnIds |-> 0]
    /\ calls = 0
    /\ HostInit
    /\ CleanupIdle
    /\ RequestIdle
    /\ StderrIdle
    /\ ListsIdle

NextServe ==
    \/ Receive("GET", "/mcp", "p", "handler")
    \/ \E hasStderr \in BOOLEAN : ServeResolved(hasStderr)
    \/ \E ok \in BOOLEAN : Connected(ok)
    \/ \E ok \in BOOLEAN : Dispatched(ok)
    \/ StreamEvent("close")
    \/ StartCallback("pending", "", "close")
    \/ \E callback \in 1..2 : SettleCallback(callback, "resolves")
    \/ RequestEnded
    \/ \E s \in DOMAIN Upstreams : UpstreamChanges(s)

SpecServe == InitServe /\ [][NextServe]_vars

\* SpecStdio: one StdioConnector, its callers, the lines its server writes
\* to stderr and the writes of the log.
InitStdio ==
    /\ conn = [c \in ConnIds |-> NewConnector(IF c = Focus THEN "stdio" ELSE "http")]
    /\ attempts = <<>>
    /\ task = [t \in Tasks |-> IdleTask]
    /\ disposeCalls = [c \in ConnIds |-> 0]
    /\ calls = 0
    /\ HostInit
    /\ ResolverIdle
    /\ CleanupIdle
    /\ RequestIdle
    /\ StderrIdle
    /\ ListsIdle

NextStdio ==
    \/ \E t \in Tasks : EnsureReady(t)
    \/ \E t \in Tasks : Dispose(t)
    \/ \E a \in 1..MaxAttempts, ok \in BOOLEAN : InitializeSettle(a, ok)
    \/ \E t \in Tasks : EnsureReadyResolved(t)
    \/ \E a \in 1..MaxAttempts : EnsureReadyRejected(a)
    \/ \E t \in Tasks : EnsureReadyRejectedLate(t)
    \/ \E t \in Tasks : DisposeFlushed(t)
    \/ \E t \in Tasks, msg \in CloseMessages \cup {""} : DisposeClosed(t, msg)
    \/ StderrLine("oops")
    \/ \E i \in 1..MaxLines : StartWrite(i)
    \/ \E i \in 1..MaxLines, ok \in BOOLEAN : FinishWrite(i, ok)

SpecStdio == InitStdio /\ [][NextStdio]_vars

\* ---- claims about one connector (Spec) ------------------------------------
InFlight ==
    \E a \in DOMAIN attempts :
        attempts[a].conn = Focus /\ attempts[a].state = "pending"

Starts(t) == task[t].pc \in {"idle", "done"} /\ task'[t].pc # task[t].pc

\* C1: while the connector is uninitialised and an initialisation is in
\* flight, no ensureReady() call starts another initialisation.
C1_SingleInitialisation ==
    [][(InFlight /\ conn[Focus].client = 0)
          => Len(attempts') = Len(attempts)]_vars

\* C2: when an initialisation attempt fails no client is latched; every
\* caller awaiting it gets the error of that attempt and leaves the slot
\* cleared; a call that finds the slot cleared (connector not disposed)
\* starts a new attempt and awaits it, and any other call awaits the attempt
\* in the slot.
C2_Step ==
    /\ \A a \in DOMAIN attempts :
          (attempts[a].state = "pending" /\ attempts'[a].state = "failed")
             => conn' = conn
    /\ \A t \in Tasks :
          (/\ task[t].pc \in {"er_wait", "er_late"}
           /\ task'[t].pc # task[t].pc
           /\ attempts[task[t].await].state = "failed")
             => /\ task'[t].pc = "done"
                /\ task'[t].result = "initErr"
                /\ task'[t].val = task[t].await
                /\ conn'[Focus].initPromise = 0
                /\ conn'[Focus].client = conn[Focus].client
    /\ \A t \in Tasks :
          (Starts(t) /\ task'[t].op \in ReadyOps /\ ~conn[Focus].disposed
                     /\ conn[Focus].client = 0)
             => /\ task'[t].pc \in {"er_wait", "er_late"}
                /\ IF conn[Focus].initPromise = 0
                   THEN /\ Len(attempts') = Len(attempts) + 1
                        /\ task'[t].await = Len(attempts')
                        /\ attempts'[Len(attempts')].state = "pending"
                        /\ conn'[Focus].initPromise = Len(attempts')
                   ELSE /\ task'[t].await = conn[Focus].initPromise
                        /\ attempts' = attempts

C2_FailureClearsSlot == [][C2_Step]_vars

\* A caller has received the error of attempt a and a retry is in the slot.
C2_Witness ==
    \E t \in Tasks :
        /\ task[t].result = "initErr"
        /\ conn[Focus].initPromise > task[t].val
        /\ conn[Focus].client = 0

\* C3: a call made after dispose() has been called fails with the disposed
\* error.
C3_DisposedRejects ==
    \A t \in Tasks :
        (task[t].pc = "done" /\ task[t].late) => task[t].result = "disposed"

\* C4: client.close() is called at most once on a client.
C4_ClosedAtMostOnce ==
    \A a \in DOMAIN attempts : attempts[a].closes <= 1

\* C5: once a cache is populated it is not replaced and no list request of
\* its kind is sent, until dispose() is called.
C5_Step ==
    \A k \in ListKinds :
        (CacheOf(conn[Focus], k) # 0 /\ disposeCalls'[Focus] = 0)
           => /\ CacheOf(conn'[Focus], k) = CacheOf(conn[Focus], k)
              /\ \A t \in Tasks :
                    (task'[t].pc = "list_wait" /\ KindOf(task'[t].op) = k)
                       => task[t].pc = "list_wait"

C5_CachePopulatedOnce == [][C5_Step]_vars

\* ---- claims about the registry and the shutdown (SpecShutdown) -------------
Settled == disposeAllRun.state \in {"fulfilled", "rejected"}

Failed == {c \in ConnIds : task[c].pc = "done" /\ task[c].result = "closeErr"}

\* the i-th failed connector in the order of the registry's map
NthFailed(i) ==
    CHOOSE c \in Failed : Cardinality({d \in Failed : d <= c}) = i

RECURSIVE JoinedUpTo(_, _, _)
JoinedUpTo(part(_), n, sep) ==
    IF n = 0 THEN ""
    ELSE IF n = 1 THEN part(1)
    ELSE JoinedUpTo(part, n - 1, sep) \o sep \o part(n)

MessageOf(i) == task[NthFailed(i)].msg
ErrorStringOf(i) == "Error: " \o task[NthFailed(i)].msg

\* C6: disposeAll() calls dispose() once on every connector and settles
\* only when every one of these calls has settled.
C6_DisposesEveryConnector ==
    /\ \A c \in ConnIds : disposeCalls[c] = disposeAllRun.calls
    /\ disposeAllRun.calls <= 1
    /\ Settled => \A c \in ConnIds : task[c].pc = "done"

C6_Witness ==
    /\ Settled
    /\ \E c \in ConnIds : task[c].result = "closeErr"
    /\ \E c \in ConnIds : task[c].result = "ok"

\* C7 as stated: the error's message is the failed connectors' messages
\* joined with "; ".
C7_MessagesJoined ==
    Settled =>
        /\ disposeAllRun.state = "rejected" <=> Failed # {}
        /\ disposeAllRun.state = "rejected" =>
              disposeAllRun.message = JoinedUpTo(MessageOf, Cardinality(Failed), "; ")

\* C7 amended: disposeAll() fails iff a dispose() failed, and the message is
\* the string form of each failure ("Error: <message>"), in registry order,
\* joined with "; ".
C7_ErrorStringsJoined ==
    Settled =>
        /\ disposeAllRun.state = "rejected" <=> Failed # {}
        /\ disposeAllRun.state = "rejected" =>
              disposeAllRun.message = JoinedUpTo(ErrorStringOf, Cardinality(Failed), "; ")

C7_Witness ==
    /\ disposeAllRun.state = "rejected"
    /\ Cardinality(Failed) >= 2

\* C8: disposeAll() is called at most once, a signal that arrives during the
\* shutdown is ignored, and the process does not end before dispose() has
\* been called once on every connector.
C8_ShutdownOnce ==
    /\ disposeAllRun.calls <= 1
    /\ shuttingDown => proc # "killed"
    /\ proc # "running" => \A c \in ConnIds : disposeCalls[c] = 1

\* C9: disposeAll() starts only after the HTTP server has closed, and
\* exit(0) happens only after disposeAll() has settled.
C9_ShutdownOrder ==
    /\ httpServer # "listening" => shuttingDown
    /\ disposeAllRun.calls > 0 => httpServer = "closed"
    /\ proc = "exit0" => (Settled /\ httpServer = "closed")

C9_Witness == proc = "exit0" /\ Settled /\ httpServer = "closed"

\* C10: once a termination signal has been received the process exits.
C10_EventuallyExits == shuttingDown ~> (proc # "running")

\* ---- claims about profile resolution (SpecProfile) ---------------------------
Keys(m) == {m[i].key : i \in DOMAIN m}

UniqueKeys(m) == \A i, j \in DOMAIN m : m[i].key = m[j].key => i = j

\* the definition of the resolved profile, its entries in the order in which
\* the configuration defines them
ResolvedDefinition ==
    IF HasOwn(config.profiles, resolved.name)
    THEN OwnValue(config.profiles, resolved.name)
    ELSE <<>>

\* what the i-th entry of the definition yields when it is resolved alone
YieldOf(i) ==
    resolveEntries(resolved.name, <<ResolvedDefinition[i]>>, <<resolved.name>>,
                   <<>>, <<>>,
                   [cache |-> <<>>, warnings |-> <<>>, answers |-> resolved.answers,
                    entered |-> <<>>, called |-> <<>>])

FirstYielding(i, m, yields(_), X) ==
    /\ X \in Keys(yields(i))
    /\ \A j \in 1..(i - 1) : X \notin Keys(yields(j))
    /\ MapGet(m, X) = MapGet(yields(i), X)

YieldedTools(i) == YieldOf(i).tools

YieldedPrompts(i) == YieldOf(i).prompts

\* C11: every exported name has one entry, and it is the entry of the first
\* entry of the definition, in definition order, that yields the name.
C11_FirstInDefinitionOrder ==
    resolved.status = "ok" =>
        /\ UniqueKeys(resolved.tools)
        /\ UniqueKeys(resolved.prompts)
        /\ \A X \in Keys(resolved.tools) :
              \E i \in DOMAIN ResolvedDefinition :
                  FirstYielding(i, resolved.tools, YieldedTools, X)
        /\ \A X \in Keys(resolved.prompts) :
              \E i \in DOMAIN ResolvedDefinition :
                  FirstYielding(i, resolved.prompts, YieldedPrompts, X)

\* entry is an entry of the map listing (tools or prompts) of its connector:
\* the descriptor is the listed one with its name replaced by the key
FaithfulEntry(e, listing) ==
    /\ e.value.descriptor.name = e.key
    /\ get(e.value.connector).ok
    /\ \E d \in Range(upstream[e.value.connector][listing]) :
          /\ d.name = e.value.originalName
          /\ e.value.descriptor = [d EXCEPT !.name = e.key]

\* C12: every entry of a resolved profile carries the exported name in its
\* descriptor, the upstream's name as original name, and the registry
\* connector whose listing the descriptor comes from.
C12_EntriesFaithful ==
    resolved.status = "ok" =>
        /\ \A i \in DOMAIN resolved.tools : FaithfulEntry(resolved.tools[i], "tools")
        /\ \A i \in DOMAIN resolved.prompts : FaithfulEntry(resolved.prompts[i], "prompts")

\* an entry that came through the nested profile with two prefixes stacked
C12_Witness ==
    /\ resolved.status = "ok"
    /\ \E i \in DOMAIN resolved.tools :
          /\ resolved.tools[i].value.via = "q"
          /\ resolved.tools[i].key = "x__x__" \o resolved.tools[i].value.originalName

\* the prefix the specification gives an entry: the string, "" for false,
\* and when omitted "<server-id>__" on a server entry, "" on a profile entry
IsServerEntry(e) == HasOwn(config.mcpServers, e.key)

SpecPrefix(e) ==
    IF e.value.prefix.t = "string" THEN e.value.prefix.v
    ELSE IF e.value.prefix.t = "false" THEN ""
    ELSE IF IsServerEntry(e) THEN e.key \o "__"
    ELSE ""

\* the entries of map m that came by entry e of the resolved definition
Via(m, e) == {m[i] : i \in {j \in DOMAIN m : m[j].value.via = e.key}}

Allowed(list, name) == list.t = "undefined" \/ name \in Range(list.v)

\* Server entry e exports from listing (answered when listed) under allow-
\* list: only allowed upstream names, under prefix + name, and every allowed
\* upstream name is exported under prefix + name, by e or by the entry that
\* took that exported name before.
ServerSelection(e, m, list, listing, listed) ==
    /\ \A x \in Via(m, e) :
          /\ Allowed(list, x.value.originalName)
          /\ x.key = SpecPrefix(e) \o x.value.originalName
          /\ x.value.connector = e.key
    /\ (list.t = "array" /\ list.v = <<>>) => Via(m, e) = {}
    /\ listed =>
          \A d \in Range(listing) :
              Allowed(list, d.name) => MapHas(m, SpecPrefix(e) \o d.name)

Ready(serverId) == resolved.answers[serverId].ensureReady = "ok"

\* C13: a server entry exports exactly the upstream items its allow-list
\* admits (all of them when it is omitted, none when it is empty), under
\* prefix + name, unless an earlier entry holds that exported name.
C13_AllowListSelects ==
    resolved.status = "ok" =>
        \A i \in DOMAIN ResolvedDefinition :
            LET e == ResolvedDefinition[i]
            IN  IsServerEntry(e) =>
                  /\ ServerSelection(e, resolved.tools, e.value.tools,
                         upstream[e.key].tools,
                         Ready(e.key) /\ resolved.answers[e.key].listTools = "ok")
                  /\ ServerSelection(e, resolved.prompts, e.value.prompts,
                         upstream[e.key].prompts,
                         Ready(e.key) /\ resolved.answers[e.key].listPrompts = "ok")

\* a server that lists two tools exports the one its allow-list names
C13_Witness ==
    /\ resolved.status = "ok"
    /\ \E i \in DOMAIN ResolvedDefinition :
          LET e == ResolvedDefinition[i]
          IN  /\ IsServerEntry(e)
              /\ e.value.tools = List(<<"search">>)
              /\ Len(upstream[e.key].tools) = 2
              /\ Cardinality(Via(resolved.tools, e)) = 1

\* the maps of the profile entry e names, resolved on its own
NestedMap(e, kind) == resolve(e.key, resolved.answers)[kind]

\* x, exported by entry e, is named prefix + source name: the upstream name
\* for a server entry, the exported name in the nested profile otherwise
PrefixedBy(e, x, kind) ==
    IF IsServerEntry(e)
    THEN x.key = SpecPrefix(e) \o x.value.originalName
    ELSE \E n \in Keys(NestedMap(e, kind)) :
            /\ x.key = SpecPrefix(e) \o n
            /\ MapGet(NestedMap(e, kind), n).connector = x.value.connector
            /\ MapGet(NestedMap(e, kind), n).originalName = x.value.originalName

\* C14: the exported name is prefix + source name, where the prefix is the
\* given string, "" for false, and when omitted "<server-id>__" on a server
\* entry and "" on a nested-profile entry.
C14_PrefixApplied ==
    resolved.status = "ok" =>
        \A i \in DOMAIN ResolvedDefinition :
            LET e == ResolvedDefinition[i]
            IN  /\ \A x \in Via(resolved.tools, e) : PrefixedBy(e, x, "tools")
                /\ \A x \in Via(resolved.prompts, e) : PrefixedBy(e, x, "prompts")

\* names exported under an omitted prefix by a nested entry and by a server
\* entry, and under prefix false
C14_Witness ==
    /\ resolved.status = "ok"
    /\ \E i, j \in DOMAIN ResolvedDefinition :
          LET e == ResolvedDefinition[i]
              f == ResolvedDefinition[j]
          IN  /\ ~IsServerEntry(e)
              /\ e.value.prefix = Undefined
              /\ \E x \in Via(resolved.tools, e) : x.key = "search"
              /\ IsServerEntry(f)
              /\ f.value.prefix = Undefined
              /\ \E x \in Via(resolved.tools, f) : x.key = f.key \o "__search"

\* C15: a nested-profile entry matches its allow-lists against the names the
\* nested profile exports and exports prefix + that name: exactly the allowed
\* ones, unless the exported name was taken before.
NestedSelection(e, m, list, kind) ==
    /\ \A x \in Via(m, e) :
          \E n \in Keys(NestedMap(e, kind)) :
              /\ Allowed(list, n)
              /\ x.key = SpecPrefix(e) \o n
              /\ MapGet(NestedMap(e, kind), n).connector = x.value.connector
              /\ MapGet(NestedMap(e, kind), n).originalName = x.value.originalName
    /\ \A n \in Keys(NestedMap(e, kind)) :
          Allowed(list, n) => MapHas(m, SpecPrefix(e) \o n)

C15_NestedSelection ==
    resolved.status = "ok" =>
        \A i \in DOMAIN ResolvedDefinition :
            LET e == ResolvedDefinition[i]
            IN  ~IsServerEntry(e) =>
                  /\ NestedSelection(e, resolved.tools, e.value.tools, "tools")
                  /\ NestedSelection(e, resolved.prompts, e.value.prompts, "prompts")

\* prefixes stacked: x__ + alpha__ + search, selected by its nested name
C15_Witness ==
    /\ resolved.status = "ok"
    /\ \E i \in DOMAIN ResolvedDefinition :
          LET e == ResolvedDefinition[i]
          IN  /\ ~IsServerEntry(e)
              /\ e.value.tools = List(<<"alpha__search">>)
              /\ Cardinality(Keys(NestedMap(e, "tools"))) = 2
              /\ \E x \in Via(resolved.tools, e) :
                     /\ x.key = "x__alpha__search"
                     /\ x.value.originalName = "search"
              /\ Cardinality(Via(resolved.tools, e)) = 1

\* Profile a has an entry that names profile b (and no server).
References(a, b) ==
    /\ HasOwn(config.profiles, a)
    /\ HasOwn(OwnValue(config.profiles, a), b)
    /\ ~HasOwn(config.mcpServers, b)
    /\ HasOwn(config.profiles, b)

ProfileKeys == {config.profiles[i].key : i \in DOMAIN config.profiles}

\* the paths of references, of up to one name more than there are profiles
ReferencePaths ==
    {path \in UNION {[1..n -> ProfileKeys] : n \in 2..(Len(config.profiles) + 1)} :
        \A i \in 1..(Len(path) - 1) : References(path[i], path[i + 1])}

\* the paths a resolution follows until it meets a name again: from the
\* requested profile, no name twice but the last one
ResolutionPaths ==
    {path \in ReferencePaths :
        /\ path[1] = resolved.name
        /\ \A i, j \in 1..(Len(path) - 1) : path[i] = path[j] => i = j
        /\ \E i \in 1..(Len(path) - 1) : path[i] = path[Len(path)]}

CircularMessage(path) ==
    "Circular profile reference detected: " \o join(path, " -> ")

IsCircular ==
    /\ resolved.status = "error"
    /\ \E path \in UNION {[1..n -> ProfileKeys] : n \in 1..(Len(config.profiles) + 1)} :
          resolved.message = CircularMessage(path)

\* C16 as stated: a resolution that can run into a cycle fails with
\* invalid-request, and a circular-reference error names a cycle: a path of
\* references whose first and last names are the same.
C16_CycleReported ==
    /\ (resolved.status # "none" /\ ResolutionPaths # {}) =>
          (resolved.status = "error" /\ resolved.code = "InvalidRequest")
    /\ IsCircular =>
          /\ resolved.code = "InvalidRequest"
          /\ \E path \in ReferencePaths :
                /\ path[1] = path[Len(path)]
                /\ resolved.message = CircularMessage(path)

\* C16 amended: the error names the resolution path, from the requested
\* profile to the profile met again; the cycle is the end of that path.
C16_PathReported ==
    /\ (resolved.status # "none" /\ ResolutionPaths # {}) =>
          (resolved.status = "error" /\ resolved.code = "InvalidRequest")
    /\ IsCircular =>
          /\ resolved.code = "InvalidRequest"
          /\ \E path \in ResolutionPaths :
                resolved.message = CircularMessage(path)

\* a cycle that does not pass through the requested profile
C16_Witness ==
    /\ IsCircular
    /\ \E path \in ResolutionPaths :
          /\ resolved.message = CircularMessage(path)
          /\ path[1] # path[Len(path)]

\* the profiles a resolution of the requested profile can come to
RECURSIVE ReachableProfiles(_)
ReachableProfiles(n) ==
    IF n = 0 THEN {resolved.name} \cap ProfileKeys
    ELSE LET nearer == ReachableProfiles(n - 1)
         IN  nearer \cup {b \in ProfileKeys : \E a \in nearer : References(a, b)}

UnknownEntry(profileName) ==
    \E i \in DOMAIN OwnValue(config.profiles, profileName) :
        LET k == OwnValue(config.profiles, profileName)[i].key
        IN  ~HasOwn(config.mcpServers, k) /\ ~HasOwn(config.profiles, k)

Rejected ==
    /\ resolved.status = "error"
    /\ resolved.code = "InvalidRequest"
    /\ resolved.tools = <<>>
    /\ resolved.prompts = <<>>
    /\ resolved.toolList = <<>>
    /\ resolved.promptList = <<>>

\* C17: a lookup of an unknown identifier fails with invalid-request and yields
\* nothing: resolve() of a name that is no profile of the config, a profile
\* entry that names neither a server nor a profile, get() of an unknown id.
C17_UnknownLookupsFail ==
    /\ (resolved.status # "none" /\ ~HasOwn(config.profiles, resolved.name))
          => Rejected
    /\ (resolved.status # "none" /\
          \E a \in ReachableProfiles(Len(config.profiles)) : UnknownEntry(a))
          => Rejected
    /\ \A id \in RequestNames \cup {"alpha", "7", "ghost"} :
          ~HasOwn(config.mcpServers, id) =>
              (~get(id).ok /\ get(id).code = "InvalidRequest")

InitFailures == {id \in DOMAIN resolved.answers : ~Ready(id)}

\* the answers in which server id is ready and lists nothing
ListingNothing(id) ==
    [resolved.answers EXCEPT ![id] =
        [ensureReady |-> "ok", listTools |-> "methodNotFound",
         listPrompts |-> "methodNotFound"]]

\* the profiles whose own entries name server id
ProfilesNaming(id) ==
    {a \in ReachableProfiles(Len(config.profiles)) :
        HasOwn(OwnValue(config.profiles, a), id)}

DispatchMap ==
    IF dispatched.method = "callTool" THEN resolved.tools ELSE resolved.prompts

DispatchListing(connector) ==
    IF dispatched.method = "callTool"
    THEN upstream[connector].tools ELSE upstream[connector].prompts

Exported == \E i \in DOMAIN DispatchMap : DispatchMap[i].key = dispatched.params.name

ExportedEntry ==
    DispatchMap[CHOOSE i \in DOMAIN DispatchMap :
                    DispatchMap[i].key = dispatched.params.name].value

\* C19: a call under an exported name reaches the connector recorded for
\* the name once, by the same method, under the original name and with the
\* other parameters unchanged, and the connector's answer is the answer of
\* the call; the same for callTool and getPrompt.
C19_ForwardedUnderOriginalName ==
    (dispatched.method # "none" /\ Exported) =>
        /\ Len(dispatched.forwarded) = 1
        /\ LET call == dispatched.forwarded[1]
            IN  /\ call.connector = ExportedEntry.connector
                /\ call.method = dispatched.method
                /\ call.params.name = ExportedEntry.originalName
                /\ \E i \in DOMAIN DispatchListing(call.connector) :
                      DispatchListing(call.connector)[i].name = call.params.name
                /\ call.params =
                      [dispatched.params EXCEPT !.name = call.params.name]
                /\ dispatched.result = call.answer
                /\ dispatched.status = (IF call.answer = "" THEN "error" ELSE "ok")

\* a tool called under a prefixed name, with arguments, and answered
C19_Witness ==
    /\ dispatched.method = "callTool"
    /\ Exported
    /\ dispatched.params.arguments = "{n:1}"
    /\ Len(dispatched.forwarded) = 1
    /\ dispatched.forwarded[1].params.name # dispatched.params.name
    /\ dispatched.result = "result"

UnknownMessage ==
    (IF dispatched.method = "callTool" THEN "Unknown tool: " ELSE "Unknown prompt: ")
        \o dispatched.params.name

\* C20: a call under a name the profile does not export fails with
\* method-not-found and reaches no connector; a connector is reached under
\* exported names only.
C20_UnknownNameRejected ==
    dispatched.method # "none" =>
        /\ ~Exported =>
              /\ dispatched.status = "error"
              /\ dispatched.code = "MethodNotFound"
              /\ dispatched.message = UnknownMessage
              /\ dispatched.forwarded = <<>>
              /\ dispatched.result = ""
        /\ dispatched.forwarded # <<>> => Exported

\* the upstream name of a tool that is exported under a prefix, or left out
\* by an allow-list
C20_Witness ==
    /\ dispatched.method = "callTool"
    /\ ~Exported
    /\ dispatched.params.name = "search"
    /\ dispatched.status = "error"
    /\ \E id \in DOMAIN upstream :
          /\ HasOwn(OwnValue(config.profiles, resolved.name), id)
          /\ \E i \in DOMAIN upstream[id].tools :
                upstream[id].tools[i].name = "search"

\* ---- claims about the CleanupManager (SpecCleanup) ------------------------
\* C21: once run() was called or a watched event arrived, every callback
\* ever registered is invoked exactly once: never twice, and, when no
\* microtask of run() is left, not zero times.
C21_EveryCallbackOnce ==
    /\ \A i \in DOMAIN callbackRuns : callbackRuns[i].count <= 1
    /\ (cleanup.cleanedUp /\ cleanup.microtasks = <<>>) =>
          \A i \in DOMAIN callbackRuns : callbackRuns[i].count = 1

\* the listeners of the manager that are attached to an emitter
AttachedListeners ==
    UNION {{cleanup.attached[e][i].listener : i \in DOMAIN cleanup.attached[e]} :
              e \in Emitters}

ListenerIds(subscriptions) ==
    {subscriptions[i].listener : i \in DOMAIN subscriptions}

\* Callbacks start after run() only, and run() schedules each callback once.
StartedAfterRun ==
    /\ \A i \in DOMAIN callbackRuns :
          callbackRuns[i].count > 0 => cleanup.cleanedUp
    /\ \A i \in DOMAIN callbackRuns :
          LET Same(c) == c = i
          IN  callbackRuns[i].count + Len(SelectSeq(cleanup.microtasks, Same)) <= 1
    /\ LET Stream(x) == x = "Stream terminated with error"
       IN  Len(SelectSeq(cleanup.warnings, Stream)) <= 1

CallbackFailed(i) == callbackRuns[i].state \in {"throws", "rejects"}

Queued(i) ==
    LET Same(c) == c = i
    IN  Len(SelectSeq(cleanup.microtasks, Same))

\* C23: a callback that throws or rejects is caught and logged at warn, one
\* warning per failure, and takes no other callback of the run() with it:
\* each of them has been invoked once or is still queued, and has been
\* invoked when nothing is queued.
C23_FailuresCaught ==
    /\ LET IsFailure(x) == x = "Cleanup callback failed"
       IN  Len(SelectSeq(cleanup.warnings, IsFailure))
               = Cardinality({i \in DOMAIN callbackRuns : CallbackFailed(i)})
    /\ cleanup.cleanedUp =>
          \A i \in DOMAIN callbackRuns :
              ~callbackRuns[i].late => callbackRuns[i].count + Queued(i) = 1

\* the first callback threw, the second one rejected, both were invoked
C23_Witness ==
    /\ Len(callbackRuns) = 2
    /\ callbackRuns[1].state = "throws"
    /\ callbackRuns[2].state = "rejects"
    /\ callbackRuns[2].count = 1
    /\ cleanup.microtasks = <<>>
    /\ Len(cleanup.warnings) = 2

\* ---- claims about one request (SpecRequest) ---------------------------------
\* the request has passed validation and resolution, and the handler is done
Served == req.manager /\ req.pc = "done"

\* a terminal occurrence: an event of the outgoing stream, or an exception
\* of server.connect or dispatchRequest
Terminal == req.events # {} \/ req.thrown

\* C24: for a request that has passed validation and resolution, a close,
\* finish or error of the outgoing stream or an exception of connect or
\* dispatch triggers the cleanup, and over all of them the transport and
\* the server of the request are each closed exactly once.
C24_CleanupOnce ==
    /\ req.manager =>
          \A i \in DOMAIN callbackRuns : callbackRuns[i].count <= 1
    /\ (Served /\ Terminal) => cleanup.cleanedUp
    /\ (req.manager /\ cleanup.cleanedUp /\ cleanup.microtasks = <<>>) =>
          \A i \in DOMAIN callbackRuns : callbackRuns[i].count = 1
NothingCreated ==
    /\ req.resolutions = 0
    /\ ~req.transport
    /\ ~req.server
    /\ ~req.manager
    /\ req.connects = 0
    /\ req.dispatches = 0

\* C25: a request to /mcp by another method than POST, GET or DELETE is
\* answered with 405, a request to another path with 404, both with the
\* code invalid-request; no profile is resolved and no transport or server
\* created for them.
C25_OtherMethodsAndPaths ==
    req.pc # "idle" =>
        /\ (req.path = "/mcp" /\ req.method \notin ALLOWED_METHODS) =>
              /\ req.pc = "done"
              /\ req.response.status = 405
              /\ req.response.code = "InvalidRequest"
              /\ NothingCreated
        /\ req.path # "/mcp" =>
              /\ req.pc = "done"
              /\ req.response.status = 404
              /\ req.response.code = "InvalidRequest"
              /\ NothingCreated
\* C26: a request of an allowed method to /mcp without a profile parameter
\* is answered with 400 "Missing profile query parameter", and one whose
\* profile fails to resolve with 400 and the code and message of the
\* failure; neither gets a transport, a server or a cleanup manager, and
\* nothing is connected or dispatched for it.
C26_BadProfileAnswered ==
    (req.pc # "idle" /\ req.path = "/mcp" /\ req.method \in ALLOWED_METHODS) =>
        /\ req.profile = "" =>
              /\ req.pc = "done"
              /\ req.response =
                    [status |-> 400, code |-> "InvalidRequest",
                     message |-> "Missing profile query parameter"]
              /\ NothingCreated
        /\ resolved.status = "error" =>
              /\ req.pc = "done"
              /\ req.response =
                    [status |-> 400, code |-> resolved.code,
                     message |-> resolved.message]
              /\ resolved.code = "InvalidRequest"
              /\ req.resolutions = 1
              /\ ~req.transport /\ ~req.server /\ ~req.manager
              /\ req.connects = 0 /\ req.dispatches = 0
              /\ cleanup = NewCleanup

\* a request for a profile that refers to itself through another
C26_Witness ==
    /\ req.pc = "done"
    /\ req.method = "POST"
    /\ req.response.status = 400
    /\ req.response.message = "Circular profile reference detected: p -> q -> p"

\* ---- claims about the stderr log (SpecStderr) ---------------------------------
Records(chain) == [i \in DOMAIN chain |-> chain[i].record]

\* C27: the stderr lines of one stdio connector are written in the order
\* they were received: the write of a line does not start before the
\* write of the line before it has settled, the log holds the lines whose
\* write succeeded in their order, and a failed write keeps no later
\* line from being written.
C27_StderrFifo ==
    /\ \A i, j \in DOMAIN stderr.chain :
          (i < j /\ stderr.chain[j].state # "waiting") =>
              stderr.chain[i].state \in {"fulfilled", "rejected"}
    /\ stderr.started = [i \in 1..Len(stderr.started) |-> i]
    /\ LET Written(link) == link.state = "fulfilled"
       IN  stderr.log = Records(SelectSeq(stderr.chain, Written))

\* the second write failed, the third line is in the log after the first
C27_Witness ==
    /\ Len(stderr.chain) = 3
    /\ stderr.chain[2].state = "rejected"
    /\ stderr.chain[3].state = "fulfilled"
    /\ Len(stderr.log) = 2
    /\ stderr.log[1] = "[7] ready\n"
    /\ stderr.log[2] = "[7] oops\n"
\* ---- claims about returned lists (SpecLists) ----------------------------------
\* C28: listTools() and listPrompts() of a profile return a copy, so that
\* whatever a caller does to a list it was handed, the profile lists what
\* it listed at its construction and accepts the same names.
C28_ProfileListsImmutable ==
    /\ lists.heap[lists.toolList] = Descriptors(resolved.tools)
    /\ lists.heap[lists.promptList] = Descriptors(resolved.prompts)
    /\ resolved = ListedProfile

ConnectorArrays ==
    {lists.returned[r].array :
        r \in {x \in DOMAIN lists.returned : lists.returned[x].from = "connector"}}

\* C29: listTools() and listPrompts() of a connector return a new copy of
\* the cache at every call: no returned list is the cache or the list of
\* another call, and the cache stays what the upstream answered.
C29_ConnectorListsCopied ==
    /\ lists.toolCache # 0 =>
          lists.heap[lists.toolCache] = upstream["alpha"].tools
    /\ lists.promptCache # 0 =>
          lists.heap[lists.promptCache] = upstream["alpha"].prompts
    /\ \A r \in DOMAIN lists.returned :
          lists.returned[r].from = "connector" =>
              /\ lists.returned[r].array
                    \notin {lists.toolCache, lists.promptCache,
                             lists.toolList, lists.promptList}
              /\ \A q \in DOMAIN lists.returned :
                    lists.returned[q].array = lists.returned[r].array => q = r

\* two lists of tools from the connector, the first one changed by its caller
C29_Witness ==
    /\ Len(lists.returned) >= 2
    /\ lists.returned[1] = [from |-> "connector", kind |-> "tools", array |-> 4]
    /\ lists.returned[2].from = "connector"
    /\ lists.returned[2].kind = "tools"
    /\ lists.heap[4] # upstream["alpha"].tools
    /\ lists.heap[lists.returned[2].array] = upstream["alpha"].tools
\* ---- claims about repeated resolution (SpecProfile) ---------------------------
\* resolve() of the requested profile on a new resolver, and once more on
\* the same resolver: with the cache the first call left
FirstResolve == resolve(resolved.name, resolved.answers)

SecondResolve == resolveRecursive(resolved.name, <<>>, FirstResolve.ctx)

SameOutcome(a, b) ==
    /\ a.ok = b.ok
    /\ a.ok => (a.tools = b.tools /\ a.prompts = b.prompts)
    /\ ~a.ok => (a.code = b.code /\ a.message = b.message)

ListedNames(list) == [i \in DOMAIN list |-> list[i].name]

MapKeys(m) == [i \in DOMAIN m |-> m[i].key]

\* C30: a second resolve(p) on the same resolver, with the configuration
\* and the upstreams unchanged, returns what the first returned: the same
\* names in the same order with the same connectors and original names, or
\* the same failure; and the names the profile lists are the keys of the
\* resolved maps, in their order.
C30_ResolveDeterministic ==
    resolved.status # "none" =>
        /\ SameOutcome(FirstResolve, SecondResolve)
        /\ resolved.status = (IF FirstResolve.ok THEN "ok" ELSE "error")
        /\ resolved.status = "ok" =>
              /\ resolved.tools = SecondResolve.tools
              /\ resolved.prompts = SecondResolve.prompts
              /\ ListedNames(resolved.toolList) = MapKeys(resolved.tools)
              /\ ListedNames(resolved.promptList) = MapKeys(resolved.prompts)

\* a profile with a server entry and a nested profile, both exporting
C30_Witness ==
    /\ resolved.status = "ok"
    /\ resolved.name = "p"
    /\ Len(FirstResolve.ctx.cache) = 2
    /\ \E i, j \in DOMAIN resolved.tools :
          /\ resolved.tools[i].value.via = "q"
          /\ resolved.tools[j].value.via \in {"alpha", "7"}
    /\ resolved.prompts # <<>>

\* ---- claims about listing failures (SpecProfile) ---------------------------
ListFailures(call) ==
    {id \in DOMAIN resolved.answers :
        Ready(id) /\ resolved.answers[id][call] # "ok"}

\* the same resolution with the call of server id answered
Answered(id, call) ==
    ProfileCreate(resolved.name, [resolved.answers EXCEPT ![id][call] = "ok"])

WarningsOf(id) ==
    {i \in DOMAIN resolved.warnings : resolved.warnings[i].serverId = id}

\* Map m holds nothing of server id, everything map answered holds of the
\* other servers, and map same is as it is when the call is answered.
OnlyThatListEmpty(id, m, answered, same, sameAnswered) ==
    /\ \A i \in DOMAIN m : m[i].value.connector # id
    /\ \A i \in DOMAIN answered :
          answered[i].value.connector # id => answered[i] \in Range(m)
    /\ same = sameAnswered

\* the warnings of a failed call: none for method-not-found, else one for
\* each profile body with an entry naming the server
ListWarnings(id, call, msg) ==
    IF resolved.answers[id][call] = "methodNotFound"
    THEN WarningsOf(id) = {}
    ELSE /\ Cardinality(WarningsOf(id)) = Cardinality(ProfilesNaming(id))
         /\ {resolved.warnings[i] : i \in WarningsOf(id)}
               = {[msg |-> msg, serverId |-> id, profile |-> a] :
                     a \in ProfilesNaming(id)}

PendingAttempts(c) ==
    {a \in DOMAIN attempts : attempts[a].conn = c /\ attempts[a].state = "pending"}

ConnectedClients(c) ==
    {a \in DOMAIN attempts : attempts[a].conn = c /\ attempts[a].state = "ok"}

\* C35: at every moment a connector has at most one initialisation attempt
\* in flight, and at most one client is ever connected for it.
C35_OneAttemptInFlight ==
    \A c \in ConnIds :
        /\ Cardinality(PendingAttempts(c)) <= 1
        /\ Cardinality(ConnectedClients(c)) <= 1

\* every dispose() called on connector c has returned
DisposeCompleted(c) ==
    /\ disposeCalls[c] > 0
    /\ \A t \in Tasks : ~(task[t].op = "dispose" /\ task[t].on = c)

\* the clients of connector c that are connected and were never closed
OpenClients(c) == {a \in ConnectedClients(c) : attempts[a].closes = 0}

\* C36: once a dispose() has completed, the connector holds no client and
\* none of its clients is connected without having been closed.
C36_NoClientAfterDispose ==
    \A c \in ConnIds :
        DisposeCompleted(c) => (conn[c].client = 0 /\ OpenClients(c) = {})

\* C37: once dispose() has set the connector disposed and cleared its
\* caches, both caches are empty.
C37_CachesStayEmpty ==
    \A c \in ConnIds :
        conn[c].disposed => (conn[c].toolCache = 0 /\ conn[c].promptCache = 0)

\* ---- claims about the disposal of a stdio connector (SpecStdio) -----------
\* the lines enqueued before dispose() call t was made have been written
\* (or their write has failed)
QueuedWritesSettled(t) ==
    \A i \in 1..task[t].await : HasSettled(stderr.chain[i].state)

\* A step that calls client.close() resumes a dispose() from its await of
\* the chain, with the interface closed and the queued writes settled; a
\* dispose() that resumes from that await goes on to super.dispose(),
\* with a warning when the chain was rejected.
C34_Step ==
    /\ (\E a \in DOMAIN attempts : attempts'[a].closes > attempts[a].closes)
          => \E t \in Tasks :
                /\ task[t].pc = "flush_wait"
                /\ task'[t].pc = "close_wait"
                /\ QueuedWritesSettled(t)
    /\ \A t \in Tasks :
          (task[t].pc = "flush_wait" /\ task'[t].pc # "flush_wait")
             => /\ QueuedWritesSettled(t)
                /\ task'[t].result # "flushErr"
                /\ conn'[task[t].on].disposed
                /\ Len(stderr'.warnings) =
                      Len(stderr.warnings)
                        + (IF ChainState(task[t].await) = "fulfilled" THEN 0 ELSE 1)

C34_OrderOfDispose == [][C34_Step]_vars

C34_NoLineAfterClose ==
    \A i \in DOMAIN stderr.chain : ~stderr.chain[i].afterClose

\* C34: StdioConnector.dispose() closes the stderr line consumer, then
\* awaits the log writes queued so far (a failure is logged and
\* swallowed), and only then closes the client; and no stderr line is
\* enqueued once the consumer has been closed.
C34_DisposeOrder == C34_OrderOfDispose /\ []C34_NoLineAfterClose

\* ---- claims about connect and dispatch (SpecRequest, FairStream) ---------
\* C33: transport.handleRequest is called only after server.connect has
\* completed, once; when server.connect fails it is not called, and the
\* cleanup runs.
C33_ConnectBeforeHandle ==
    /\ req.handles > 0 => req.connected = "ok"
    /\ req.dispatches > 0 => req.connected = "ok"
    /\ req.handles <= req.dispatches
    /\ req.dispatches <= 1
    /\ req.connected = "failed" =>
          /\ req.handles = 0
          /\ req.pc = "done"
          /\ cleanup.cleanedUp
    /\ req.connected # "none" => (req.connects = 1 /\ req.manager)

\* a POST whose body was read after server.connect completed
C33_Witness ==
    /\ req.method = "POST"
    /\ req.connected = "ok"
    /\ req.handles = 1
    /\ req.pc = "done"
    /\ ~cleanup.cleanedUp

\* the transport and the server of the request have been closed
Closed ==
    /\ Len(callbackRuns) = 2
    /\ \A i \in DOMAIN callbackRuns : callbackRuns[i].count = 1

\* C40: for every request that reaches assembly the cleanup runs in the
\* end: the transport and the server of the request are closed.
C40_CleanupEventually == req.manager ~> Closed

\* ---- claims about the traversal of the profiles (SpecGraph) ---------------
NoRepeats(seq) == \A i, j \in DOMAIN seq : seq[i] = seq[j] => i = j

\* C39: resolve(p) ends, with a result or with an error; it begins the
\* body of a profile at most once, and only of profiles that p reaches;
\* a result means every profile p reaches was resolved, once; and a
\* circular reference is reported only when the references from p lead
\* back to a profile on the way, so not for a profile that several
\* parents use.
C39_ResolveTerminates ==
    resolved.status # "none" =>
        LET bodies == FirstResolve.ctx.entered
        IN  /\ resolved.status \in {"ok", "error"}
            /\ resolved.status = "error" =>
                  (resolved.code # "" /\ resolved.message # "")
            /\ NoRepeats(bodies)
            /\ Range(bodies) \subseteq
                  ({resolved.name} \cup ReachableProfiles(Len(config.profiles)))
            /\ resolved.status = "ok" =>
                  /\ Range(bodies) = ReachableProfiles(Len(config.profiles))
                  /\ ResolutionPaths = {}
            /\ IsCircular <=> ResolutionPaths # {}

\* a diamond: p uses q and r, q uses r, and r exports the tools of alpha
C39_Witness ==
    /\ config = GraphConfig(<<Entry("q", DefaultSelection), Entry("r", DefaultSelection)>>,
                            <<Entry("r", DefaultSelection)>>,
                            <<Entry("alpha", DefaultSelection)>>)
    /\ resolved.status = "ok"
    /\ resolved.name = "p"
    /\ FirstResolve.ctx.entered = <<"p", "q", "r">>
    /\ Len(resolved.tools) = 2

\* ---- claims about requests and connectors (SpecServe) ---------------------
ServerIds == {config.mcpServers[i].key : i \in DOMAIN config.mcpServers}

\* C32: whatever the requests do (resolution, dispatch, cleanup), no
\* connector is disposed or closed, the registry holds for every server
\* the connector it was constructed with, and a connector that is ready
\* answers ensureReady() also after the cleanup of a request.
C32_RegistryUntouched ==
    /\ \A c \in ConnIds :
          /\ ~conn[c].disposed
          /\ disposeCalls[c] = 0
          /\ conn[c].kind = NewRegistry[c].kind
    /\ \A a \in DOMAIN attempts : attempts[a].closes = 0
    /\ config.mcpServers = McpServers
    /\ \A i \in DOMAIN config.mcpServers :
          /\ ConnectorOf(config.mcpServers[i].key) = i
          /\ get(config.mcpServers[i].key).ok
    /\ \A s \in ServerIds :
          conn[ConnectorOf(s)].client # 0 =>
              \A running \in BOOLEAN :
                  ReadyAnswer(conn[ConnectorOf(s)], attempts, running) = "ok"

\* a request after one whose cleanup has run, served by the client that
\* the earlier request connected
C32_Witness ==
    /\ req.cleaned
    /\ req.previous > 0
    /\ req.pc = "done"
    /\ resolved.status = "ok"
    /\ ~upstream["alpha"].running
    /\ \E i \in DOMAIN resolved.tools : resolved.tools[i].value.connector = "alpha"

ExportsOf(s, m) == {i \in DOMAIN m : m[i].value.connector = s}

\* A resolution that ends: every server that is running answers
\* ensureReady() and has its tools and prompts exported, whatever failed
\* before; with every server running the profile is what a first
\* request gets from servers that all work.
C38_Step ==
    (req.pc = "resolving" /\ req'.pc # "resolving") =>
        /\ \A s \in ServerIds :
              upstream[s].running =>
                  /\ resolved'.answers[s].ensureReady = "ok"
                  /\ ExportsOf(s, resolved'.tools) # {}
                  /\ ExportsOf(s, resolved'.prompts) # {}
        /\ (\A s \in ServerIds : upstream[s].running) =>
              LET fresh == ProfileCreate(req.profile, OkAnswers)
              IN  /\ resolved'.status = "ok"
                  /\ resolved'.tools = fresh.tools
                  /\ resolved'.prompts = fresh.prompts
                  /\ resolved'.warnings = <<>>

\* C38: a failed initialisation is not remembered: a later request made
\* when the upstream can be initialised exports its tools and prompts.
C38_FailureNotRemembered == [][C38_Step]_vars

\* the connector of alpha failed to initialise for one request and a later
\* request exports the tools of alpha
C38_Witness ==
    /\ req.previous > 0
    /\ resolved.status = "ok"
    /\ \E a, b \in DOMAIN attempts :
          /\ a < b
          /\ attempts[a].conn = ConnectorOf("alpha")
          /\ attempts[b].conn = ConnectorOf("alpha")
          /\ attempts[a].state = "failed"
          /\ attempts[b].state = "ok"
    /\ ExportsOf("alpha", resolved.tools) # {}

====
